---------------------------- MODULE Spec2Model ----------------------------
(***************************************************************************)
(* Verification model of tppocr: the FixedLine text stabilizer             *)
(* (text_processor.rs), the SyncChannel frame exchange (frame.rs,          *)
(* message_socket.rs), the shared memory segment (shared_memory.rs), the   *)
(* lock-guarded display buffer (processor.rs, vnc.rs), the socket          *)
(* endpoints of a channel id (message_socket.rs), the run loops of the     *)
(* three processes (frame.rs, processor.rs, vnc.rs) and the startup of     *)
(* the recognition process (main.rs).                                      *)
(*                                                                         *)
(* Each subsystem has its own specification (SpecText, SpecChan, SpecShm,  *)
(* SpecDisp, SpecSock, SpecRun, SpecMain); the variables of the other      *)
(* subsystems stay at their initial value in it.                           *)
(***************************************************************************)
EXTENDS Integers, Sequences, FiniteSets, TLC

Last(s) == s[Len(s)]

VARIABLES
    \* ---- FixedLineProcessor (text_processor.rs) ----
    region,          \* FixedLineProcessor.region
    input_buffer,    \* FixedLineProcessor.input_buffer : Vec<InputTextItem>
    output_buffer,   \* FixedLineProcessor.output_buffer : VecDeque<TextItem>
    now,             \* Utc::now(), in seconds
    lastCall,        \* history: the last call made, its arguments and its result
    utterance,       \* history: the first accepted reading of the line on screen, and
                     \* the number of events queued for that line so far
    \* ---- FrameDumper / FrameReader over the SyncChannel (frame.rs) ----
    server_socket,   \* datagrams queued at MessageServer.socket (requests)
    client_socket,   \* datagrams queued at MessageClient.socket (replies)
    client_pc,       \* where FrameReader::read and its caller are
    reads,           \* number of read() calls started
    server_pc,       \* where FrameDumper::run / process_frame is
    skip_sleep,      \* FrameDumper.skip_sleep
    client_name,     \* process_frame's client_name: address of the requester
    serving,         \* history: the read() whose request process_frame consumed last
    frame_no,        \* number of frames decoded so far
    presentation_time,           \* of decoded_frame, in units of 0.05 s
    previous_presentation_time,  \* FrameDumper.previous_presentation_time
    rgb_frame,       \* FrameDumper.rgb_frame: number of the frame converted last
    frame_memory,    \* the frame SharedMemory segment, word by word
    copied,          \* words of rgb_frame copied into frame_memory so far
    consumed,        \* history: reads whose request the server's poll consumed
    replies,         \* history: number of replies sent for each read
    written,         \* history: reads for which the segment write completed
    fresh,           \* history: a segment write completed since the last request was sent
    got,             \* history: the read that the reply received last answers
    acted_pts,       \* history: presentation time of the frame written last in this
                     \* pass over the input, -1: none yet
    \* ---- SharedMemory (shared_memory.rs) ----
    shm_name,        \* the object that /tppocr_<id> names in the namespace, 0: none
    shm_objects,     \* the shared memory objects ever created: length and bytes
    handles,         \* the SharedMemory values: state, object mapped, data_size, unlink_on_drop
                     \* (gen, creator are history: the name's generation at the open,
                     \* and whether the open created the name)
    shm_unlinks,     \* history: number of times the name was removed
    shm_sizes,       \* history: the sizes asked for by the opens since the name was created
    shm_shadow,      \* history: per offset, the value stored last since the name was created
    shm_last,        \* history: the last operation and its result
    \* ---- display buffer between Processor and VncServer (processor.rs, vnc.rs) ----
    lock_holder,     \* the process holding the flock on the display segment, or "none"
    display_memory,  \* the display SharedMemory segment, word by word
    canvas,          \* Processor.canvas: every word carries the number of the canvas
    frame_counter,   \* Processor.frame_counter
    writer_pc,       \* where Processor::run is
    writer_pos,      \* words of canvas copied into display_memory so far
    frame_buffer,    \* VncServer.frame_buffer
    reader_pc,       \* where VncServer::run is
    reader_pos,      \* words of display_memory copied into frame_buffer so far
    previous_frame,  \* history: frame_buffer as the copy before the last one left it
    \* ---- MessageServer / MessageClient endpoints of one channel id (message_socket.rs) ----
    server_path,     \* the MessageServer whose socket /tmp/tppocr_<id>.socket names, 0: no such file
    client_path,     \* the MessageClient whose socket /tmp/tppocr_client-<id>.socket names, 0: none
    servers,         \* the MessageServer values, each with the FrameDumper that owns it:
                     \* state, datagrams queued at its socket, previous_presentation_time
    clients,         \* the MessageClient values, each with the FrameReader that owns it:
                     \* state, connected peer, datagrams queued, position in read()
    started_reads,   \* history: number of read() calls started by the clients
    sock_last,       \* history: the last operation, its result and what it met
    \* ---- the run loops of the three processes and their termination flags ----
    terminate_flag,  \* per process, the AtomicBool that the TERM_SIGNALS set
    frame_dumper,    \* FrameDumper::run: position, infinite_loop, packets left in this pass
                     \* over the input, frames decoded in it, previous_presentation_time,
                     \* the last receive_frame result, what process_frame did last, result
                     \* (rewound is history: the input was sought back to its start)
    processor,       \* Processor::run: position, result of the last read(), result
    vnc_server,      \* VncServer::run: position, rfbIsActive, result
    \* ---- startup of the recognition process (main.rs) ----
    environment,     \* what main finds: the configuration file, whether the stream dumper
                     \* is up, whether the tessdata is there, the IPC names that exist
    main             \* main: position, result, the configuration if loaded
                     \* (opened is history: the IPC resources opened, created or bound)

textVars == <<region, input_buffer, output_buffer, now, lastCall, utterance>>

chanVars == <<server_socket, client_socket, client_pc, reads, server_pc, skip_sleep,
              client_name, serving, frame_no, presentation_time,
              previous_presentation_time, rgb_frame, frame_memory, copied,
              consumed, replies, written, fresh, got, acted_pts>>

shmVars == <<shm_name, shm_objects, handles, shm_unlinks, shm_sizes, shm_shadow, shm_last>>

dispVars == <<lock_holder, display_memory, canvas, frame_counter, writer_pc, writer_pos,
              frame_buffer, reader_pc, reader_pos, previous_frame>>

sockVars == <<server_path, client_path, servers, clients, started_reads, sock_last>>

runVars == <<terminate_flag, frame_dumper, processor, vnc_server>>

mainVars == <<environment, main>>

vars == <<textVars, chanVars, shmVars, dispVars, sockVars, runVars, mainVars>>

\* what the steps of one subsystem leave alone
notText == <<chanVars, shmVars, dispVars, sockVars, runVars, mainVars>>
notChan == <<textVars, shmVars, dispVars, sockVars, runVars, mainVars>>
notShm == <<textVars, chanVars, dispVars, sockVars, runVars, mainVars>>
notDisp == <<textVars, chanVars, shmVars, sockVars, runVars, mainVars>>
notSock == <<textVars, chanVars, shmVars, dispVars, runVars, mainVars>>
notRun == <<textVars, chanVars, shmVars, dispVars, sockVars, mainVars>>
notMain == <<textVars, chanVars, shmVars, dispVars, sockVars, runVars>>

----------------------------------------------------------------------------
(* Bounds of the model *)

\* most items held in input_buffer and output_buffer together
MaxItems == 2
\* last second of the clock
MaxTime == 6
\* number of read() calls of the frame consumer
MaxReads == 3
\* number of frames the producer decodes
MaxFrames == 4
\* size of the frame segment, in words
FrameWords == 2
\* number of SharedMemory values opened on one id
MaxHandles == 2
\* largest data_size asked for, in bytes
MaxSize == 2
\* size of the display segment, in words
DisplayWords == 2
\* number of canvases the processor composes
MaxCanvases == 3

----------------------------------------------------------------------------
(* Small helpers *)

Max2(a, b) == IF a >= b THEN a ELSE b
Min2(a, b) == IF a <= b THEN a ELSE b

----------------------------------------------------------------------------
(* Texts: strings are sequences of characters *)

HELLO == <<"H", "E", "L", "L", "O">>
HELL0 == <<"H", "E", "L", "L", "0">>
HALLO == <<"H", "A", "L", "L", "O">>
BYE   == <<"B", "Y", "E">>

Texts == {HELLO, HELL0, BYE}

----------------------------------------------------------------------------
(* eddie::JaroWinkler::similarity, as called at text_processor.rs:80.       *)
(* The result is the exact fraction <<numerator, denominator>>.             *)

\* half the longer length, minus one: how far apart two matching characters may be
MatchWindow(a, b) == Max2((Max2(Len(a), Len(b)) \div 2) - 1, 0)

\* first unused position j in lo..hi of b holding character c, 0 when none
RECURSIVE FindMatch(_, _, _, _, _)
FindMatch(c, b, used, j, hi) ==
    IF j > hi THEN 0
    ELSE IF j \notin used /\ b[j] = c THEN j
    ELSE FindMatch(c, b, used, j + 1, hi)

\* greedy matching of the characters of a, from position i on, against b
RECURSIVE JaroMatches(_, _, _, _, _)
JaroMatches(a, b, i, used, m1) ==
    IF i > Len(a) THEN [used |-> used, m1 |-> m1]
    ELSE LET w == MatchWindow(a, b)
             j == FindMatch(a[i], b, used, Max2(1, i - w), Min2(Len(b), i + w))
         IN  IF j = 0 THEN JaroMatches(a, b, i + 1, used, m1)
             ELSE JaroMatches(a, b, i + 1, used \cup {j}, Append(m1, a[i]))

\* the characters of b at the positions of a set, in the order of b
RECURSIVE PickChars(_, _, _)
PickChars(b, used, j) ==
    IF j > Len(b) THEN <<>>
    ELSE IF j \in used THEN <<b[j]>> \o PickChars(b, used, j + 1)
    ELSE PickChars(b, used, j + 1)

\* Jaro similarity as <<numerator, denominator>>
Jaro(a, b) ==
    IF Len(a) = 0 /\ Len(b) = 0 THEN <<1, 1>>
    ELSE IF Len(a) = 0 \/ Len(b) = 0 THEN <<0, 1>>
    ELSE LET r  == JaroMatches(a, b, 1, {}, <<>>)
             m  == Len(r.m1)
             m2 == PickChars(b, r.used, 1)
             t  == Cardinality({k \in 1..m : r.m1[k] # m2[k]}) \div 2
         IN  IF m = 0 THEN <<0, 1>>
             ELSE <<m * m * Len(b) + m * m * Len(a) + (m - t) * Len(a) * Len(b),
                    3 * Len(a) * Len(b) * m>>

\* length of the common prefix of a and b
RECURSIVE CommonPrefix(_, _, _)
CommonPrefix(a, b, i) ==
    IF i > Len(a) \/ i > Len(b) THEN 0
    ELSE IF a[i] # b[i] THEN 0
    ELSE 1 + CommonPrefix(a, b, i + 1)

\* Winkler's prefix is at most 4 characters, each worth 0.1 of the distance left
MaxPrefix == 4
ScalingDen == 10

JaroWinkler(a, b) ==
    LET j == Jaro(a, b)
        p == Min2(CommonPrefix(a, b, 1), MaxPrefix)
    IN  IF j[1] = 0 THEN <<0, 1>>
        ELSE <<ScalingDen * j[1] + p * (j[2] - j[1]), ScalingDen * j[2]>>

\* the similarities of the texts of the model, computed once
SimilarityTable == [p \in Texts \X Texts |-> JaroWinkler(p[1], p[2])]

similarity(a, b) == SimilarityTable[<<a, b>>]

\* similarity < 0.8 (text_processor.rs:84), on the exact fraction
SimilarityNum == 8
SimilarityDen == 10
BelowSimilarity(s) == s[1] * SimilarityDen < SimilarityNum * s[2]

----------------------------------------------------------------------------
(* Observations offered to the stabilizer *)

\* recognitions: a text and the confidence of its first block, in percent
\* (text_recognizer.rs:112 divides tesseract's percentage by 100)
Recognitions == { <<HELLO, 70>>, <<HELL0, 90>>, <<BYE, 80>>, <<HELLO, 90>>, <<BYE, 59>> }

Regions == { [x |-> 0,  y |-> 0,  width |-> 200, height |-> 40],
             [x |-> 10, y |-> 20, width |-> 100, height |-> 20] }

\* top-left corners a block can have inside region r: the region's corner,
\* exactly 20% of the size away, just over 20% away in x, just over 20% away in y
Corners(r) == { <<r.x, r.y>>,
                <<r.x + r.width \div 5, r.y + r.height \div 5>>,
                <<r.x + r.width \div 5 + 1, r.y>>,
                <<r.x, r.y + r.height \div 5 + 1>> }

BoundingBox(c, corner, r) ==
    [confidence |-> c, x1 |-> corner[1], y1 |-> corner[2],
     x2 |-> r.x + r.width, y2 |-> r.y + r.height]

\* the block list of recognition rec: one block, or two blocks
BlockLists(r, rec) ==
    {<<BoundingBox(rec[2], corner, r)>> : corner \in Corners(r)}
        \cup { <<BoundingBox(rec[2], <<r.x, r.y>>, r), BoundingBox(90, <<r.x, r.y>>, r)>> }

\* the instants at which the stabilizer is called: seconds 0 and 1 of every period
ClockValues == {t \in 0..MaxTime : t % 5 \in {0, 1}}

----------------------------------------------------------------------------
(* FixedLineProcessor *)

ConfidenceThreshold == 60
IdleSeconds == 5

\* text_processor.rs:139-148; (region - box) / size <= 0.2, on integers
is_text_block_top_left(r, block_bounding_boxes) ==
    IF block_bounding_boxes # <<>>
    THEN LET bounding_box == block_bounding_boxes[1]
         IN  /\ (r.x - bounding_box.x1) * 5 <= r.width
             /\ (r.y - bounding_box.y1) * 5 <= r.height
    ELSE FALSE

\* variant: the threshold is not applied
is_text_block_confidence_okAny(threshold, block_bounding_boxes) ==
    block_bounding_boxes # <<>>

\* text_processor.rs:150-156
is_text_block_confidence_ok(threshold, block_bounding_boxes) ==
    IF block_bounding_boxes # <<>>
    THEN block_bounding_boxes[1].confidence >= threshold
    ELSE FALSE

\* variant: greater-or-equal replaces the best, so the last maximum wins
RECURSIVE BestIndexFromLast(_, _, _, _)
BestIndexFromLast(buf, i, best_confidence, best_index) ==
    IF i > Len(buf) THEN best_index
    ELSE IF buf[i].confidence >= best_confidence
         THEN BestIndexFromLast(buf, i + 1, buf[i].confidence, i)
         ELSE BestIndexFromLast(buf, i + 1, best_confidence, best_index)

\* the loop of flush_input_to_output_buffer: strictly greater replaces the best
RECURSIVE BestIndexFrom(_, _, _, _)
BestIndexFrom(buf, i, best_confidence, best_index) ==
    IF i > Len(buf) THEN best_index
    ELSE IF buf[i].confidence > best_confidence
         THEN BestIndexFrom(buf, i + 1, buf[i].confidence, i)
         ELSE BestIndexFrom(buf, i + 1, best_confidence, best_index)

\* best_confidence = 0.0, best_index = 0 (here the first position, 1)
BestIndex(buf) == BestIndexFrom(buf, 1, 0, 1)

TextItem(item) == [date |-> item.date, text |-> item.text, confidence |-> item.confidence]

\* variant: the event takes the best entry's text and confidence but the first entry's date
flush_input_to_output_bufferFirstDate(ib, ob) ==
    IF ib = <<>> THEN [input |-> ib, output |-> ob]
    ELSE [input |-> <<>>,
          output |-> Append(ob, [date |-> ib[1].date, text |-> ib[BestIndex(ib)].text,
                                 confidence |-> ib[BestIndex(ib)].confidence])]

\* text_processor.rs:45-69
flush_input_to_output_buffer(ib, ob) ==
    IF ib = <<>> THEN [input |-> ib, output |-> ob]
    ELSE [input |-> <<>>, output |-> Append(ob, TextItem(ib[BestIndex(ib)]))]

\* variant: an observation unlike the buffer's first entry is buffered without a flush
processNeverFlushes(r, ib, ob, date, text, block_bounding_boxes) ==
    IF /\ is_text_block_confidence_ok(ConfidenceThreshold, block_bounding_boxes)
       /\ is_text_block_top_left(r, block_bounding_boxes)
    THEN LET previous_similarity == IF ib # <<>> THEN similarity(ib[1].text, text) ELSE <<>>
         IN  [input  |-> Append(ib, [text |-> text, date |-> date,
                                     confidence |-> block_bounding_boxes[1].confidence,
                                     previous_similarity |-> previous_similarity]),
              output |-> ob]
    ELSE [input |-> ib, output |-> ob]

\* variant: the observation is pushed before the buffer is flushed
processPushFirst(r, ib, ob, date, text, block_bounding_boxes) ==
    IF /\ is_text_block_confidence_ok(ConfidenceThreshold, block_bounding_boxes)
       /\ is_text_block_top_left(r, block_bounding_boxes)
    THEN LET previous_similarity == IF ib # <<>> THEN similarity(ib[1].text, text) ELSE <<>>
             pushed == Append(ib, [text |-> text, date |-> date,
                                   confidence |-> block_bounding_boxes[1].confidence,
                                   previous_similarity |-> previous_similarity])
         IN  IF ib # <<>> /\ BelowSimilarity(previous_similarity)
             THEN flush_input_to_output_buffer(pushed, ob)
             ELSE [input |-> pushed, output |-> ob]
    ELSE [input |-> ib, output |-> ob]

\* text_processor.rs:73-96
process(r, ib, ob, date, text, block_bounding_boxes) ==
    IF /\ is_text_block_confidence_ok(ConfidenceThreshold, block_bounding_boxes)
       /\ is_text_block_top_left(r, block_bounding_boxes)
    THEN LET previous_similarity == IF ib # <<>> THEN similarity(ib[1].text, text) ELSE <<>>
             fl == IF ib # <<>> /\ BelowSimilarity(previous_similarity)
                   THEN flush_input_to_output_buffer(ib, ob)
                   ELSE [input |-> ib, output |-> ob]
         IN  [input  |-> Append(fl.input,
                                [text |-> text, date |-> date,
                                 confidence |-> block_bounding_boxes[1].confidence,
                                 previous_similarity |-> previous_similarity]),
              output |-> fl.output]
    ELSE [input |-> ib, output |-> ob]

\* variant: the queue is emptied from its back (pop_back), newest event first
poll_resultNewestFirst(ib, ob, date) ==
    LET fl == IF ib # <<>> /\ date - ib[Len(ib)].date > IdleSeconds
              THEN flush_input_to_output_buffer(ib, ob)
              ELSE [input |-> ib, output |-> ob]
    IN  [input |-> fl.input, output |-> <<>>,
         results |-> [i \in 1..Len(fl.output) |-> fl.output[Len(fl.output) + 1 - i]]]

\* variant: the idle flush already happens at exactly 5 seconds
poll_resultAtFive(ib, ob, date) ==
    LET fl == IF ib # <<>> /\ date - ib[Len(ib)].date >= IdleSeconds
              THEN flush_input_to_output_buffer(ib, ob)
              ELSE [input |-> ib, output |-> ob]
    IN  [input |-> fl.input, output |-> <<>>, results |-> fl.output]

\* text_processor.rs:98-113
poll_result(ib, ob, date) ==
    LET fl == IF ib # <<>> /\ date - ib[Len(ib)].date > IdleSeconds
              THEN flush_input_to_output_buffer(ib, ob)
              ELSE [input |-> ib, output |-> ob]
    IN  [input |-> fl.input, output |-> <<>>, results |-> fl.output]

\* lastCall: op is the call made; confidence the first block's (-1: no block);
\* far whether that block is far from the corner; pushed whether the observation
\* was buffered; group the buffer that was flushed (<<>>: no flush); results
\* what poll_result returned
NoCall == [op |-> "new", confidence |-> -1, far |-> FALSE,
           pushed |-> FALSE, group |-> <<>>, results |-> <<>>]

\* the first block lies more than 20% of the region's size right of or below its corner
FarFromCorner(r, block_bounding_boxes) ==
    /\ block_bounding_boxes # <<>>
    /\ \/ (block_bounding_boxes[1].x1 - r.x) * 5 > r.width
       \/ (block_bounding_boxes[1].y1 - r.y) * 5 > r.height

\* no line has been read yet
NoUtterance == [first |-> <<>>, events |-> 0]

\* a line for which a second event was queued; kept from then on
TwiceUtterance == [first |-> <<>>, events |-> 2]

\* the line on screen after a call: a flush queues an event for the line read so far;
\* an accepted reading that is not similar to the line's first reading starts a new line
Heard(u, accepted, text, flushed) ==
    LET events == IF flushed THEN u.events + 1 ELSE u.events
    IN  IF u.events = 2 \/ events = 2 THEN TwiceUtterance
        ELSE IF ~accepted THEN [u EXCEPT !.events = events]
        ELSE IF u.first = <<>> THEN [first |-> text, events |-> 0]
        ELSE IF ~BelowSimilarity(similarity(u.first, text)) THEN [u EXCEPT !.events = events]
        ELSE [first |-> text, events |-> 0]

TextInit ==
    /\ region \in Regions
    /\ input_buffer = <<>>
    /\ output_buffer = <<>>
    /\ now = 0
    /\ lastCall = NoCall
    /\ utterance = NoUtterance

\* RegionProcessor::process calls process with date = Utc::now() (processor.rs:184-188)
Process(text, block_bounding_boxes) ==
    LET res == process(region, input_buffer, output_buffer, now, text, block_bounding_boxes)
        didFlush == Len(res.output) > Len(output_buffer)
        didPush == didFlush \/ Len(res.input) > Len(input_buffer)
    IN  /\ Len(res.input) + Len(res.output) <= MaxItems
        /\ input_buffer' = res.input
        /\ output_buffer' = res.output
        /\ lastCall' = [op |-> "process",
                        confidence |-> IF block_bounding_boxes = <<>> THEN -1
                                       ELSE block_bounding_boxes[1].confidence,
                        far |-> FarFromCorner(region, block_bounding_boxes),
                        pushed |-> didPush,
                        group |-> IF didFlush THEN input_buffer ELSE <<>>,
                        results |-> <<>>]
        /\ utterance' = Heard(utterance, didPush, text, didFlush)
        /\ UNCHANGED <<region, now, notText>>

\* RegionProcessor::get_text calls poll_result with date = Utc::now() (processor.rs:265-268)
Poll ==
    LET res == poll_result(input_buffer, output_buffer, now)
    IN  /\ input_buffer' = res.input
        /\ output_buffer' = res.output
        /\ lastCall' = [op |-> "poll", confidence |-> -1, far |-> FALSE, pushed |-> FALSE,
                        group |-> IF Len(res.results) > Len(output_buffer)
                                  THEN input_buffer ELSE <<>>,
                        results |-> res.results]
        /\ utterance' = Heard(utterance, FALSE, <<>>, Len(res.results) > Len(output_buffer))
        /\ UNCHANGED <<region, now, notText>>

\* the clock advances to t
Tick(t) ==
    /\ t > now
    /\ now' = t
    /\ lastCall' = [op |-> "tick", confidence |-> -1, far |-> FALSE, pushed |-> FALSE,
                    group |-> <<>>, results |-> <<>>]
    /\ UNCHANGED <<region, input_buffer, output_buffer, utterance, notText>>

TextNext ==
    \/ \E rec \in Recognitions : \E boxes \in BlockLists(region, rec) : Process(rec[1], boxes)
    \/ \E text \in Texts : Process(text, <<>>)
    \/ Poll
    \/ \E t \in ClockValues : Tick(t)

----------------------------------------------------------------------------
(* FrameDumper (server, producer) and FrameReader (client, consumer) *)

\* presentation_time - previous_presentation_time > 0.1, in units of 0.05 s
ThrottleUnits == 2

\* presentation times the next decoded frame can have
NextPts == IF frame_no = 0 THEN {0, 1}
           ELSE {presentation_time + 1, presentation_time + 3}

\* frame.rs:180-181
Eligible(pt) ==
    \/ pt - previous_presentation_time > ThrottleUnits
    \/ previous_presentation_time = 0

ChanInit ==
    /\ server_socket = <<>>
    /\ client_socket = <<>>
    /\ client_pc = "idle"
    /\ reads = 0
    /\ server_pc = "decode"
    /\ skip_sleep \in BOOLEAN
    /\ client_name = "none"
    /\ serving = 0
    /\ frame_no = 0
    /\ presentation_time = 0
    /\ previous_presentation_time = 0
    /\ rgb_frame = 0
    /\ frame_memory = [i \in 1..FrameWords |-> 0]
    /\ copied = 0
    /\ consumed = {}
    /\ replies = [r \in 1..MaxReads |-> 0]
    /\ written = {}
    /\ fresh = FALSE
    /\ got = 0
    /\ acted_pts = -1

\* variant: after a timeout the endpoint cannot be used for another read()
ClientSendOnce ==
    /\ client_pc = "idle"
    /\ reads < MaxReads
    /\ reads' = reads + 1
    /\ server_socket' = Append(server_socket, [from |-> "client", read |-> reads + 1])
    /\ client_pc' = "receive"
    /\ fresh' = FALSE
    /\ UNCHANGED <<client_socket, server_pc, skip_sleep, client_name, serving, frame_no,
                   presentation_time, previous_presentation_time, rgb_frame,
                   frame_memory, copied, consumed, replies, written, got,
                   acted_pts, notChan>>

\* frame.rs:254-256: read() sends the request datagram
ClientSend ==
    /\ client_pc \in {"idle", "failed"}
    /\ reads < MaxReads
    /\ reads' = reads + 1
    /\ server_socket' = Append(server_socket, [from |-> "client", read |-> reads + 1])
    /\ client_pc' = "receive"
    /\ fresh' = FALSE
    /\ UNCHANGED <<client_socket, server_pc, skip_sleep, client_name, serving, frame_no,
                   presentation_time, previous_presentation_time, rgb_frame,
                   frame_memory, copied, consumed, replies, written, got,
                   acted_pts, notChan>>

\* frame.rs:257-261: a datagram arrived within the timeout, read() returns Ok
ClientReceive ==
    /\ client_pc = "receive"
    /\ client_socket # <<>>
    /\ got' = Head(client_socket).for
    /\ client_socket' = Tail(client_socket)
    /\ client_pc' = "ok"
    /\ UNCHANGED <<server_socket, reads, server_pc, skip_sleep, client_name, serving,
                   frame_no, presentation_time, previous_presentation_time, rgb_frame,
                   frame_memory, copied, consumed, replies, written, fresh,
                   acted_pts, notChan>>

\* frame.rs:257-259: nothing arrived within the timeout, read() returns Err
ClientTimeout ==
    /\ client_pc = "receive"
    /\ client_socket = <<>>
    /\ client_pc' = "failed"
    /\ UNCHANGED <<server_socket, client_socket, reads, server_pc, skip_sleep,
                   client_name, serving, frame_no, presentation_time,
                   previous_presentation_time, rgb_frame, frame_memory, copied,
                   consumed, replies, written, fresh, got,
                   acted_pts, notChan>>

\* processor.rs:86-111: the caller has used the segment and comes back for the next read
ClientDone ==
    /\ client_pc = "ok"
    /\ client_pc' = "idle"
    /\ UNCHANGED <<server_socket, client_socket, reads, server_pc, skip_sleep,
                   client_name, serving, frame_no, presentation_time,
                   previous_presentation_time, rgb_frame, frame_memory, copied,
                   consumed, replies, written, fresh, got,
                   acted_pts, notChan>>

\* frame.rs:104-112, 177-182: a frame is decoded and is not eligible: nothing is done
FrameThrottled(pt) ==
    /\ server_pc = "decode"
    /\ frame_no < MaxFrames
    /\ ~Eligible(pt)
    /\ frame_no' = frame_no + 1
    /\ presentation_time' = pt
    /\ UNCHANGED <<server_socket, client_socket, client_pc, reads, server_pc, skip_sleep,
                   client_name, serving, previous_presentation_time, rgb_frame,
                   frame_memory, copied, consumed, replies, written, fresh, got,
                   acted_pts, notChan>>

\* variant: a frame skipped for want of a request still counts as acted upon
FrameNoRequestActed(pt) ==
    /\ server_pc = "decode"
    /\ frame_no < MaxFrames
    /\ Eligible(pt)
    /\ server_socket = <<>>
    /\ frame_no' = frame_no + 1
    /\ presentation_time' = pt
    /\ previous_presentation_time' = pt
    /\ UNCHANGED <<server_socket, client_socket, client_pc, reads, server_pc, skip_sleep,
                   client_name, serving, rgb_frame,
                   frame_memory, copied, consumed, replies, written, fresh, got,
                   acted_pts, notChan>>

\* frame.rs:183-187: the non-blocking receive finds no request: the frame is skipped
FrameNoRequest(pt) ==
    /\ server_pc = "decode"
    /\ frame_no < MaxFrames
    /\ Eligible(pt)
    /\ server_socket = <<>>
    /\ frame_no' = frame_no + 1
    /\ presentation_time' = pt
    /\ UNCHANGED <<server_socket, client_socket, client_pc, reads, server_pc, skip_sleep,
                   client_name, serving, previous_presentation_time, rgb_frame,
                   frame_memory, copied, consumed, replies, written, fresh, got,
                   acted_pts, notChan>>

\* variant: the reply is sent as soon as the request is received, before the copy
FrameServeReplyFirst(pt) ==
    /\ server_pc = "decode"
    /\ frame_no < MaxFrames
    /\ Eligible(pt)
    /\ server_socket # <<>>
    /\ frame_no' = frame_no + 1
    /\ presentation_time' = pt
    /\ acted_pts' = pt
    /\ client_name' = Head(server_socket).from
    /\ serving' = Head(server_socket).read
    /\ consumed' = consumed \cup {Head(server_socket).read}
    /\ server_socket' = Tail(server_socket)
    /\ client_socket' = Append(client_socket, [for |-> Head(server_socket).read])
    /\ replies' = [replies EXCEPT ![Head(server_socket).read] = @ + 1]
    /\ rgb_frame' = frame_no + 1
    /\ copied' = 0
    /\ server_pc' = "copy"
    /\ UNCHANGED <<client_pc, reads, skip_sleep, previous_presentation_time,
                   frame_memory, written, fresh, got,
                   notChan>>

\* frame.rs:183-191: the receive returns a request; the frame is converted
FrameServe(pt) ==
    /\ server_pc = "decode"
    /\ frame_no < MaxFrames
    /\ Eligible(pt)
    /\ server_socket # <<>>
    /\ frame_no' = frame_no + 1
    /\ presentation_time' = pt
    /\ acted_pts' = pt
    /\ client_name' = Head(server_socket).from
    /\ serving' = Head(server_socket).read
    /\ consumed' = consumed \cup {Head(server_socket).read}
    /\ server_socket' = Tail(server_socket)
    /\ rgb_frame' = frame_no + 1
    /\ copied' = 0
    /\ server_pc' = "copy"
    /\ UNCHANGED <<client_socket, client_pc, reads, skip_sleep,
                   previous_presentation_time, frame_memory, replies, written, fresh, got,
                   notChan>>

\* frame.rs:193-195: copy_from_slice, one word at a time
CopyWord ==
    /\ server_pc = "copy"
    /\ copied < FrameWords
    /\ frame_memory' = [frame_memory EXCEPT ![copied + 1] = rgb_frame]
    /\ copied' = copied + 1
    /\ IF copied + 1 = FrameWords
       THEN /\ server_pc' = "send"
            /\ written' = written \cup {serving}
            /\ fresh' = TRUE
       ELSE UNCHANGED <<server_pc, written, fresh>>
    /\ UNCHANGED <<server_socket, client_socket, client_pc, reads, skip_sleep,
                   client_name, serving, frame_no, presentation_time,
                   previous_presentation_time, rgb_frame, consumed, replies, got,
                   acted_pts, notChan>>

\* variant: the reply datagram is sent twice
ServerReplyTwice ==
    /\ server_pc = "send"
    /\ previous_presentation_time' = presentation_time
    /\ client_socket' = IF client_name = "client"
                        THEN client_socket \o <<[for |-> serving], [for |-> serving]>>
                        ELSE client_socket
    /\ replies' = [replies EXCEPT ![serving] = @ + 2]
    /\ server_pc' = IF skip_sleep THEN "decode" ELSE "sleep"
    /\ UNCHANGED <<server_socket, client_pc, reads, skip_sleep, client_name, serving,
                   frame_no, presentation_time, rgb_frame, frame_memory, copied,
                   consumed, written, fresh, got,
                   acted_pts, notChan>>

\* frame.rs:197-199: the timestamp is kept and the reply is sent to client_name
ServerReply ==
    /\ server_pc = "send"
    /\ previous_presentation_time' = presentation_time
    /\ client_socket' = IF client_name = "client"
                        THEN Append(client_socket, [for |-> serving])
                        ELSE client_socket
    /\ replies' = [replies EXCEPT ![serving] = @ + 1]
    /\ server_pc' = IF skip_sleep THEN "decode" ELSE "sleep"
    /\ UNCHANGED <<server_socket, client_pc, reads, skip_sleep, client_name, serving,
                   frame_no, presentation_time, rgb_frame, frame_memory, copied,
                   consumed, written, fresh, got,
                   acted_pts, notChan>>

\* frame.rs:202-204: the 0.1 s sleep ends
ServerWake ==
    /\ server_pc = "sleep"
    /\ server_pc' = "decode"
    /\ UNCHANGED <<server_socket, client_socket, client_pc, reads, skip_sleep,
                   client_name, serving, frame_no, presentation_time,
                   previous_presentation_time, rgb_frame, frame_memory, copied,
                   consumed, replies, written, fresh, got,
                   acted_pts, notChan>>

\* frame.rs:104-127: the packets of the input are used up and infinite_loop is set:
\* the input is sought back to its start for another pass
Rewind ==
    /\ server_pc = "decode"
    /\ frame_no > 0
    /\ frame_no' = 0
    /\ presentation_time' = 0
    /\ previous_presentation_time' = 0
    /\ acted_pts' = -1
    /\ UNCHANGED <<server_socket, client_socket, client_pc, reads, server_pc, skip_sleep,
                   client_name, serving, rgb_frame, frame_memory, copied,
                   consumed, replies, written, fresh, got,
                   notChan>>

ChanNext ==
    \/ ClientSend
    \/ ClientReceive
    \/ ClientTimeout
    \/ ClientDone
    \/ \E pt \in NextPts : FrameThrottled(pt)
    \/ \E pt \in NextPts : FrameNoRequest(pt)
    \/ \E pt \in NextPts : FrameServe(pt)
    \/ CopyWord
    \/ ServerReply
    \/ ServerWake
    \/ Rewind

\* the consumer calls read() again and takes a datagram that is there; the producer
\* keeps decoding frames, pass after pass
ChanFairness ==
    /\ WF_vars(ClientSend)
    /\ WF_vars(ClientReceive)
    /\ WF_vars(\E pt \in NextPts : FrameServe(pt))
    /\ WF_vars(CopyWord)
    /\ WF_vars(ServerReply)
    /\ WF_vars(ServerWake)
    /\ WF_vars(Rewind)

----------------------------------------------------------------------------
(* SharedMemory: one id, several handles (attachments) *)

Handles == 1..MaxHandles
Sizes == 1..MaxSize
\* byte values stored; a new or extended object reads 0
Values == {1, 2}

NoHandle == [state |-> "none", obj |-> 0, data_size |-> 0, unlink_on_drop |-> FALSE, gen |-> 0,
             creator |-> FALSE]

\* variant: the object is emptied before it is given its size
ftruncateFresh(object, size) ==
    [len |-> size, data |-> [k \in 1..size |-> 0]]

\* nix::unistd::ftruncate (shared_memory.rs:101): the object becomes size bytes long,
\* cut at the end or extended with zero bytes
ftruncate(object, size) ==
    [len |-> size,
     data |-> [k \in 1..size |-> IF k <= object.len THEN object.data[k] ELSE 0]]

\* variant: shm_open is given O_CREAT whatever the create flag
open_shared_memoryCreates(data_size, create) ==
    LET objs == IF shm_name = 0
                THEN Append(shm_objects, [len |-> 0, data |-> <<>>])
                ELSE shm_objects
        o == IF shm_name = 0 THEN Len(objs) ELSE shm_name
    IN  [ok |-> TRUE, name |-> o,
         objects |-> [objs EXCEPT ![o] = ftruncate(@, data_size)],
         obj |-> o]

\* shared_memory.rs:87-116: shm_open (creating the object when create is set and the
\* name is absent), then ftruncate to data_size, then mmap MAP_SHARED
open_shared_memory(data_size, create) ==
    IF shm_name = 0 /\ ~create
    THEN [ok |-> FALSE, name |-> shm_name, objects |-> shm_objects, obj |-> 0]
    ELSE LET objs == IF shm_name = 0
                     THEN Append(shm_objects, [len |-> 0, data |-> <<>>])
                     ELSE shm_objects
             o == IF shm_name = 0 THEN Len(objs) ELSE shm_name
         IN  [ok |-> TRUE, name |-> o,
              objects |-> [objs EXCEPT ![o] = ftruncate(@, data_size)],
              obj |-> o]

\* shared_memory.rs:45-47: the byte view of a handle; -1 where the mapping lies beyond
\* the end of the object (the access raises SIGBUS)
data(h) ==
    [k \in 1..handles[h].data_size |->
        IF k <= shm_objects[handles[h].obj].len
        THEN shm_objects[handles[h].obj].data[k] ELSE -1]

\* the handles attached since the name was created, the name not having been removed
Current(h) == handles[h].state = "open" /\ handles[h].gen = shm_unlinks /\ shm_name # 0

ShmInit ==
    /\ shm_name = 0
    /\ shm_objects = <<>>
    /\ handles = [h \in Handles |-> NoHandle]
    /\ shm_unlinks = 0
    /\ shm_sizes = {}
    /\ shm_shadow = [k \in 1..MaxSize |-> 0]
    /\ shm_last = [op |-> "new", result |-> "ok"]

\* the handles are taken in order: h is the first one not used yet
NextHandle(h) == handles[h].state = "none" /\ \A g \in 1..(h - 1) : handles[g].state # "none"

\* shared_memory.rs:30-43: the value open_ builds from a successful open_shared_memory
Attached(res, data_size) ==
    [state |-> "open", obj |-> res.obj, data_size |-> data_size,
     unlink_on_drop |-> FALSE, gen |-> shm_unlinks, creator |-> shm_name = 0]

\* a handle that was dropped, or whose process was killed
Gone(state) == [NoHandle EXCEPT !.state = state]

\* shared_memory.rs:22-24, 30-43: open_(id, data_size, true)
OpenOrCreate(h, data_size) ==
    LET res == open_shared_memory(data_size, TRUE)
    IN  /\ NextHandle(h)
        /\ shm_name' = res.name
        /\ shm_objects' = res.objects
        /\ handles' = [handles EXCEPT ![h] = Attached(res, data_size)]
        /\ shm_sizes' = shm_sizes \cup {data_size}
        /\ shm_last' = [op |-> "open_or_create", result |-> "ok"]
        /\ UNCHANGED <<shm_unlinks, shm_shadow, notShm>>

\* shared_memory.rs:26-28, 30-43: open_(id, data_size, false)
Open(h, data_size) ==
    LET res == open_shared_memory(data_size, FALSE)
    IN  /\ NextHandle(h)
        /\ IF res.ok
           THEN /\ shm_name' = res.name
                /\ shm_objects' = res.objects
                /\ handles' = [handles EXCEPT ![h] = Attached(res, data_size)]
                /\ shm_sizes' = shm_sizes \cup {data_size}
                /\ shm_last' = [op |-> "open", result |-> "ok"]
           ELSE /\ handles' = [handles EXCEPT ![h] = Gone("failed")]
                /\ shm_last' = [op |-> "open", result |-> "NotFound"]
                /\ UNCHANGED <<shm_name, shm_objects, shm_sizes>>
        /\ UNCHANGED <<shm_unlinks, shm_shadow, notShm>>

\* shared_memory.rs:49-51: data_mut()[k] = v
Store(h, k, v) ==
    /\ handles[h].state = "open"
    /\ k \in 1..handles[h].data_size
    /\ IF k <= shm_objects[handles[h].obj].len
       THEN /\ shm_objects' = [shm_objects EXCEPT ![handles[h].obj].data[k] = v]
            /\ shm_shadow' = IF Current(h) THEN [shm_shadow EXCEPT ![k] = v] ELSE shm_shadow
            /\ shm_last' = [op |-> "store", result |-> "ok"]
            /\ UNCHANGED handles
       ELSE /\ handles' = [handles EXCEPT ![h] = Gone("killed")]
            /\ shm_last' = [op |-> "store", result |-> "SIGBUS"]
            /\ UNCHANGED <<shm_objects, shm_shadow>>
    /\ UNCHANGED <<shm_name, shm_unlinks, shm_sizes, notShm>>

\* shared_memory.rs:71-73
SetUnlinkOnDrop(h, value) ==
    /\ handles[h].state = "open"
    /\ handles[h].unlink_on_drop # value
    /\ handles' = [handles EXCEPT ![h].unlink_on_drop = value]
    /\ shm_last' = [op |-> "set_unlink_on_drop", result |-> "ok"]
    /\ UNCHANGED <<shm_name, shm_objects, shm_unlinks, shm_sizes, shm_shadow, notShm>>

\* nix::sys::mman::shm_unlink: the name is removed; the object lives on in its mappings
shm_unlink ==
    /\ shm_name' = 0
    /\ shm_unlinks' = shm_unlinks + 1
    /\ shm_sizes' = {}
    /\ shm_shadow' = [k \in 1..MaxSize |-> 0]

\* variant: the drop never removes the name
DropKeepsName(h) ==
    /\ handles[h].state = "open"
    /\ handles' = [handles EXCEPT ![h] = Gone("dropped")]
    /\ shm_last' = [op |-> "drop", result |-> "ok"]
    /\ UNCHANGED <<shm_name, shm_unlinks, shm_sizes, shm_shadow, shm_objects, notShm>>

\* variant: the drop removes the name whatever unlink_on_drop says
DropUnlinks(h) ==
    /\ handles[h].state = "open"
    /\ handles' = [handles EXCEPT ![h] = Gone("dropped")]
    /\ IF shm_name # 0
       THEN shm_unlink /\ shm_last' = [op |-> "drop", result |-> "ok"]
       ELSE /\ shm_last' = [op |-> "drop", result |-> "panic"]
            /\ UNCHANGED <<shm_name, shm_unlinks, shm_sizes, shm_shadow>>
    /\ UNCHANGED <<shm_objects, notShm>>

\* shared_memory.rs:125-131: drop; shm_unlink(..).unwrap() panics when the name is gone
Drop(h) ==
    /\ handles[h].state = "open"
    /\ handles' = [handles EXCEPT ![h] = Gone("dropped")]
    /\ IF handles[h].unlink_on_drop
       THEN IF shm_name # 0
            THEN shm_unlink /\ shm_last' = [op |-> "drop", result |-> "ok"]
            ELSE /\ shm_last' = [op |-> "drop", result |-> "panic"]
                 /\ UNCHANGED <<shm_name, shm_unlinks, shm_sizes, shm_shadow>>
       ELSE /\ shm_last' = [op |-> "drop", result |-> "ok"]
            /\ UNCHANGED <<shm_name, shm_unlinks, shm_sizes, shm_shadow>>
    /\ UNCHANGED <<shm_objects, notShm>>

\* shared_memory.rs:118-122: unlink(self), followed by the drop of self
Unlink(h) ==
    /\ handles[h].state = "open"
    /\ handles' = [handles EXCEPT ![h] = Gone("dropped")]
    /\ IF shm_name # 0
       THEN /\ shm_unlink
            /\ shm_last' = [op |-> "unlink", result |-> IF handles[h].unlink_on_drop THEN "panic" ELSE "ok"]
       ELSE /\ shm_last' = [op |-> "unlink", result |-> IF handles[h].unlink_on_drop THEN "panic" ELSE "Err"]
            /\ UNCHANGED <<shm_name, shm_unlinks, shm_sizes, shm_shadow>>
    /\ UNCHANGED <<shm_objects, notShm>>

ShmNext ==
    \/ \E h \in Handles, size \in Sizes : OpenOrCreate(h, size)
    \/ \E h \in Handles, size \in Sizes : Open(h, size)
    \/ \E h \in Handles, k \in Sizes, v \in Values : Store(h, k, v)
    \/ \E h \in Handles, value \in BOOLEAN : SetUnlinkOnDrop(h, value)
    \/ \E h \in Handles : Drop(h)
    \/ \E h \in Handles : Unlink(h)

----------------------------------------------------------------------------
(* The display buffer: Processor::run writes it, VncServer::run reads it *)

\* the canvas number n, every word of it
Canvas(n) == [k \in 1..DisplayWords |-> n]

DispInit ==
    /\ lock_holder = "none"
    /\ display_memory = Canvas(0)
    /\ canvas = Canvas(0)
    /\ frame_counter = 0
    /\ writer_pc = "compose"
    /\ writer_pos = 0
    /\ frame_buffer = Canvas(0)
    /\ reader_pc = "lock"
    /\ reader_pos = 0
    /\ previous_frame = Canvas(0)

\* variant: the lock is granted at once, whoever holds it
LockExclusiveAtOnce(who) ==
    lock_holder' = who

\* shared_memory.rs:75-79: flock(fd, LockExclusive) returns once no other open file
\* description holds the lock
LockExclusive(who) ==
    /\ lock_holder = "none"
    /\ lock_holder' = who

\* variant: the unlock leaves the lock with its holder
UnlockKept(who) ==
    lock_holder' = lock_holder

\* shared_memory.rs:81-85: flock(fd, Unlock)
Unlock(who) ==
    lock_holder' = IF lock_holder = who THEN "none" ELSE lock_holder

\* processor.rs:66-67: process_frame and draw_date compose the next canvas
WriterCompose ==
    /\ writer_pc = "compose"
    /\ frame_counter < MaxCanvases
    /\ canvas' = Canvas(frame_counter + 1)
    /\ writer_pc' = "lock"
    /\ UNCHANGED <<lock_holder, display_memory, frame_counter, writer_pos,
                   frame_buffer, reader_pc, reader_pos, previous_frame, notDisp>>

\* processor.rs:66: process_frame()? returns the error of a failed read, run ends
WriterFail ==
    /\ writer_pc = "compose"
    /\ writer_pc' = "exited"
    /\ UNCHANGED <<lock_holder, display_memory, canvas, frame_counter, writer_pos,
                   frame_buffer, reader_pc, reader_pos, previous_frame, notDisp>>

\* processor.rs:69: vnc_client.lock()
WriterLock ==
    /\ writer_pc = "lock"
    /\ LockExclusive("writer")
    /\ writer_pc' = "copy"
    /\ writer_pos' = 0
    /\ UNCHANGED <<display_memory, canvas, frame_counter,
                   frame_buffer, reader_pc, reader_pos, previous_frame, notDisp>>

\* processor.rs:70-72: copy_from_slice(canvas.get_data()), one word at a time
WriterCopyWord ==
    /\ writer_pc = "copy"
    /\ writer_pos < DisplayWords
    /\ display_memory' = [display_memory EXCEPT ![writer_pos + 1] = canvas[writer_pos + 1]]
    /\ writer_pos' = writer_pos + 1
    /\ writer_pc' = IF writer_pos + 1 = DisplayWords THEN "unlock" ELSE "copy"
    /\ UNCHANGED <<lock_holder, canvas, frame_counter,
                   frame_buffer, reader_pc, reader_pos, previous_frame, notDisp>>

\* processor.rs:73-75: vnc_client.unlock(), frame_counter += 1
WriterUnlock ==
    /\ writer_pc = "unlock"
    /\ Unlock("writer")
    /\ frame_counter' = frame_counter + 1
    /\ writer_pc' = "compose"
    /\ UNCHANGED <<display_memory, canvas, writer_pos,
                   frame_buffer, reader_pc, reader_pos, previous_frame, notDisp>>

\* vnc.rs:53: shared_memory.lock()
ReaderLock ==
    /\ reader_pc = "lock"
    /\ LockExclusive("reader")
    /\ reader_pc' = "copy"
    /\ reader_pos' = 0
    /\ previous_frame' = frame_buffer
    /\ UNCHANGED <<display_memory, canvas, frame_counter, writer_pc, writer_pos,
                   frame_buffer, notDisp>>

\* vnc.rs:55-56: frame_buffer.copy_from_slice(shared_memory.data_32()), one word at a time
ReaderCopyWord ==
    /\ reader_pc = "copy"
    /\ reader_pos < DisplayWords
    /\ frame_buffer' = [frame_buffer EXCEPT ![reader_pos + 1] = display_memory[reader_pos + 1]]
    /\ reader_pos' = reader_pos + 1
    /\ reader_pc' = IF reader_pos + 1 = DisplayWords THEN "unlock" ELSE "copy"
    /\ UNCHANGED <<lock_holder, display_memory, canvas, frame_counter, writer_pc,
                   writer_pos, previous_frame, notDisp>>

\* vnc.rs:57: shared_memory.unlock()
ReaderUnlock ==
    /\ reader_pc = "unlock"
    /\ Unlock("reader")
    /\ reader_pc' = "events"
    /\ UNCHANGED <<display_memory, canvas, frame_counter, writer_pc, writer_pos,
                   frame_buffer, reader_pos, previous_frame, notDisp>>

\* vnc.rs:64-73: rfbMarkRectAsModified, rfbProcessEvents, then the loop goes round
ReaderEvents ==
    /\ reader_pc = "events"
    /\ reader_pc' = "lock"
    /\ UNCHANGED <<lock_holder, display_memory, canvas, frame_counter, writer_pc,
                   writer_pos, frame_buffer, reader_pos, previous_frame, notDisp>>

DispNext ==
    \/ WriterCompose
    \/ WriterFail
    \/ WriterLock
    \/ WriterCopyWord
    \/ WriterUnlock
    \/ ReaderLock
    \/ ReaderCopyWord
    \/ ReaderUnlock
    \/ ReaderEvents

----------------------------------------------------------------------------
(* The specifications: one subsystem runs, the others rest in their initial state *)

----------------------------------------------------------------------------
(* MessageServer and MessageClient: the Unix datagram endpoints of one      *)
(* channel id and their names in the file system (message_socket.rs)        *)

MaxServers == 2
MaxClients == 2
MaxRequests == 2

Servers == 1..MaxServers
Clients == 1..MaxClients

\* a MessageServer not opened yet; "gone" is one whose socket is closed, by its Drop or
\* with its process
NoServer == [state |-> "none", queue |-> <<>>, previous_presentation_time |-> 0]

NoClient == [state |-> "none", peer |-> 0, queue |-> <<>>, pc |-> "idle"]

NoOperation == [op |-> "none", who |-> 0, result |-> "Ok", found |-> "absent",
                send |-> "none", answers |-> 0]

\* path.exists() and what the name leads to: a socket that is open, or one closed
NameState(path, endpoints) ==
    IF path = 0 THEN "absent"
    ELSE IF endpoints[path].state = "live" THEN "live"
    ELSE "stale"

\* the socket a name resolves to in connect() and send_to(), 0: ENOENT or ECONNREFUSED
Resolve(path, endpoints) ==
    IF NameState(path, endpoints) = "live" THEN path ELSE 0

SockInit ==
    /\ server_path = 0
    /\ client_path = 0
    /\ servers = [s \in Servers |-> NoServer]
    /\ clients = [c \in Clients |-> NoClient]
    /\ started_reads = 0
    /\ sock_last = NoOperation

\* the values are numbered in the order of their construction
NextServer(s) == servers[s].state = "none" /\ \A t \in 1..(s - 1) : servers[t].state # "none"

NextClient(c) == clients[c].state = "none" /\ \A d \in 1..(c - 1) : clients[d].state # "none"

\* message_socket.rs:15-25: a name found is removed, whatever holds it, and bound anew
ServerOpen(s) ==
    /\ NextServer(s)
    /\ servers' = [servers EXCEPT ![s].state = "live"]
    /\ server_path' = s
    /\ sock_last' = [NoOperation EXCEPT !.op = "MessageServer::open",
                                        !.found = NameState(server_path, servers)]
    /\ UNCHANGED <<client_path, clients, started_reads>>
    /\ UNCHANGED notSock

\* variant: the Drop closes the socket and leaves the name
ServerDropKeepsName(s) ==
    /\ servers[s].state = "live"
    /\ servers' = [servers EXCEPT ![s] = [NoServer EXCEPT !.state = "gone"]]
    /\ sock_last' = [NoOperation EXCEPT !.op = "MessageServer::drop"]
    /\ UNCHANGED <<server_path, client_path, clients, started_reads>>
    /\ UNCHANGED notSock

\* message_socket.rs:52-56: remove_file(&self.path).unwrap(), then the socket closes;
\* the unwrap panics when the name is gone already
ServerDrop(s) ==
    /\ servers[s].state = "live"
    /\ servers' = [servers EXCEPT ![s] = [NoServer EXCEPT !.state = "gone"]]
    /\ server_path' = 0
    /\ sock_last' = [NoOperation EXCEPT !.op = "MessageServer::drop",
                                        !.result = IF server_path = 0 THEN "panic" ELSE "Ok"]
    /\ UNCHANGED <<client_path, clients, started_reads>>
    /\ UNCHANGED notSock

\* the process is killed: the socket closes and no Drop runs
ServerKill(s) ==
    /\ servers[s].state = "live"
    /\ servers' = [servers EXCEPT ![s] = [NoServer EXCEPT !.state = "gone"]]
    /\ sock_last' = NoOperation
    /\ UNCHANGED <<server_path, client_path, clients, started_reads>>
    /\ UNCHANGED notSock

\* message_socket.rs:64-78: the name is removed and bound, then connect() to the server's
\* name; a failed connect returns the error and closes the socket bound just before
ClientOpen(c) ==
    /\ NextClient(c)
    /\ client_path' = c
    /\ LET peer == Resolve(server_path, servers) IN
         /\ clients' = [clients EXCEPT ![c] =
                IF peer # 0 THEN [NoClient EXCEPT !.state = "live", !.peer = peer]
                ELSE [NoClient EXCEPT !.state = "gone"]]
         /\ sock_last' = [NoOperation EXCEPT !.op = "MessageClient::open",
                                             !.result = IF peer # 0 THEN "Ok" ELSE "Err",
                                             !.found = NameState(client_path, clients)]
    /\ UNCHANGED <<server_path, servers, started_reads>>
    /\ UNCHANGED notSock

\* message_socket.rs:99-103, when the FrameReader is dropped
ClientDrop(c) ==
    /\ clients[c].state = "live"
    /\ clients[c].pc = "idle"
    /\ clients' = [clients EXCEPT ![c] = [NoClient EXCEPT !.state = "gone"]]
    /\ client_path' = 0
    /\ sock_last' = [NoOperation EXCEPT !.op = "MessageClient::drop",
                                        !.result = IF client_path = 0 THEN "panic" ELSE "Ok"]
    /\ UNCHANGED <<server_path, servers, started_reads>>
    /\ UNCHANGED notSock

ClientKill(c) ==
    /\ clients[c].state = "live"
    /\ clients' = [clients EXCEPT ![c] = [NoClient EXCEPT !.state = "gone"]]
    /\ sock_last' = NoOperation
    /\ UNCHANGED <<server_path, client_path, servers, started_reads>>
    /\ UNCHANGED notSock

\* frame.rs:256, message_socket.rs:90-92: send() on the connected socket reaches the
\* socket connected to, under whatever name; it fails when that socket is closed, and
\* read() returns the error
ReadSend(c) ==
    /\ clients[c].state = "live"
    /\ clients[c].pc = "idle"
    /\ started_reads < MaxRequests
    /\ started_reads' = started_reads + 1
    /\ LET peer == clients[c].peer
           sent == servers[peer].state = "live" IN
         /\ clients' = [clients EXCEPT ![c].pc = IF sent THEN "receive" ELSE "idle"]
         /\ servers' = IF sent
                       THEN [servers EXCEPT ![peer].queue =
                                Append(@, [from |-> "client", sender |-> c])]
                       ELSE servers
         /\ sock_last' = [NoOperation EXCEPT !.op = "FrameReader::read", !.who = c,
                                !.send = IF sent THEN "Ok" ELSE "Err",
                                !.result = IF sent THEN "pending" ELSE "Err"]
    /\ UNCHANGED <<server_path, client_path>>
    /\ UNCHANGED notSock

\* frame.rs:257-261, message_socket.rs:94-96: a datagram is there
ReadReceive(c) ==
    /\ clients[c].state = "live"
    /\ clients[c].pc = "receive"
    /\ clients[c].queue # <<>>
    /\ clients' = [clients EXCEPT ![c].queue = Tail(@), ![c].pc = "idle"]
    /\ sock_last' = [NoOperation EXCEPT !.op = "FrameReader::read", !.who = c,
                                        !.send = "Ok",
                                        !.answers = Head(clients[c].queue).answers]
    /\ UNCHANGED <<server_path, client_path, servers, started_reads>>
    /\ UNCHANGED notSock

\* frame.rs:257-261: no datagram within the read timeout of 2 s (frame.rs:225)
ReadTimeout(c) ==
    /\ clients[c].state = "live"
    /\ clients[c].pc = "receive"
    /\ clients[c].queue = <<>>
    /\ clients' = [clients EXCEPT ![c].pc = "idle"]
    /\ sock_last' = [NoOperation EXCEPT !.op = "FrameReader::read", !.who = c,
                                        !.send = "Ok", !.result = "Err"]
    /\ UNCHANGED <<server_path, client_path, servers, started_reads>>
    /\ UNCHANGED notSock

\* the socket the reply of server s goes to: the one the requester's name leads to now,
\* if it is open and takes datagrams of s (a connected socket takes those of its peer only)
ReplyTarget(s) ==
    LET target == Resolve(client_path, clients) IN
    IF target # 0 /\ clients[target].peer = s THEN target ELSE 0

\* variant: the error of the reply's send is returned before the timestamp is set
ProcessFramePropagates(s) ==
    /\ servers[s].state = "live"
    /\ servers[s].queue # <<>>
    /\ LET request == Head(servers[s].queue)
           target == ReplyTarget(s) IN
         /\ servers' = [servers EXCEPT ![s].queue = Tail(@),
                            ![s].previous_presentation_time =
                                IF target # 0 THEN @ + ThrottleUnits + 1 ELSE @]
         /\ clients' = IF target # 0
                       THEN [clients EXCEPT ![target].queue =
                                Append(@, [answers |-> request.sender])]
                       ELSE clients
         /\ sock_last' = [NoOperation EXCEPT !.op = "process_frame",
                                !.send = IF target # 0 THEN "Ok" ELSE "Err",
                                !.result = IF target # 0 THEN "Ok" ELSE "Err"]
    /\ UNCHANGED <<server_path, client_path, started_reads>>
    /\ UNCHANGED notSock

\* frame.rs:183-204 for the next frame that passes the throttle, with a request queued:
\* the request is taken, the frame written, the timestamp set, and the reply sent to
\* the requester's name with the result of the send discarded
ProcessFrame(s) ==
    /\ servers[s].state = "live"
    /\ servers[s].queue # <<>>
    /\ LET request == Head(servers[s].queue)
           target == ReplyTarget(s) IN
         /\ servers' = [servers EXCEPT ![s].queue = Tail(@),
                            ![s].previous_presentation_time = @ + ThrottleUnits + 1]
         /\ clients' = IF target # 0
                       THEN [clients EXCEPT ![target].queue =
                                Append(@, [answers |-> request.sender])]
                       ELSE clients
         /\ sock_last' = [NoOperation EXCEPT !.op = "process_frame",
                                !.send = IF target # 0 THEN "Ok" ELSE "Err"]
    /\ UNCHANGED <<server_path, client_path, started_reads>>
    /\ UNCHANGED notSock

SockNext ==
    \/ \E s \in Servers : ServerOpen(s)
    \/ \E s \in Servers : ServerDrop(s)
    \/ \E s \in Servers : ServerKill(s)
    \/ \E c \in Clients : ClientOpen(c)
    \/ \E c \in Clients : ClientDrop(c)
    \/ \E c \in Clients : ClientKill(c)
    \/ \E c \in Clients : ReadSend(c)
    \/ \E c \in Clients : ReadReceive(c)
    \/ \E c \in Clients : ReadTimeout(c)
    \/ \E s \in Servers : ProcessFrame(s)

----------------------------------------------------------------------------
(* The run loops of the stream dumper, the recognition process and the VNC  *)
(* server, with the flag that a termination signal sets in each (frame.rs,  *)
(* processor.rs, vnc.rs)                                                    *)

MaxPackets == 3

Processes == {"stream_dumper", "processor", "vnc_server"}

\* results of decoder.receive_frame that process_receive_frame_result tells apart
ReceiveFrameErrors == {"Eof", "EAGAIN", "fault"}

\* frame.rs:148-162: Ok(true) for a frame, Ok(false) for Eof and EAGAIN, Err otherwise
process_receive_frame_result(result) ==
    IF result = "frame" THEN "Ok(true)"
    ELSE IF result \in {"Eof", "EAGAIN"} THEN "Ok(false)"
    ELSE "Err"

\* frame.rs:180-181 for a frame at pt, with the timestamp of the frame acted on last
PassesThrottle(pt, previous) == pt - previous > ThrottleUnits \/ previous = 0

RunInit ==
    /\ terminate_flag = [p \in Processes |-> FALSE]
    /\ \E loop \in BOOLEAN, n \in 0..MaxPackets :
         frame_dumper = [pc |-> "packets", infinite_loop |-> loop, packets |-> n,
                         frame_no |-> 0, previous_presentation_time |-> 0,
                         receive_frame |-> "none", process_frame |-> "none",
                         rewound |-> FALSE, result |-> "running"]
    /\ processor = [pc |-> "while", read |-> "none", result |-> "running"]
    /\ vnc_server = [pc |-> "while", active |-> TRUE, result |-> "running"]

\* signal_hook::flag::register (frame.rs:94-97, processor.rs:58-61, vnc.rs:47-50):
\* a termination signal sets the flag of the process it is sent to
Signal(p) ==
    /\ ~terminate_flag[p]
    /\ terminate_flag' = [terminate_flag EXCEPT ![p] = TRUE]
    /\ UNCHANGED <<frame_dumper, processor, vnc_server>>
    /\ UNCHANGED notRun

\* frame.rs:100-102: the next packet of the video stream goes to the decoder
DumperPacket ==
    /\ frame_dumper.pc = "packets"
    /\ frame_dumper.packets > 0
    /\ frame_dumper' = [frame_dumper EXCEPT !.pc = "receive", !.packets = @ - 1,
                                            !.receive_frame = "none",
                                            !.process_frame = "none"]
    /\ UNCHANGED <<terminate_flag, processor, vnc_server>>
    /\ UNCHANGED notRun

\* frame.rs:102: decoder.send_packet(&packet)? returns its error from run
DumperSendPacketFails ==
    /\ frame_dumper.pc = "packets"
    /\ frame_dumper.packets > 0
    /\ frame_dumper' = [frame_dumper EXCEPT !.pc = "stopped", !.result = "Err"]
    /\ UNCHANGED <<terminate_flag, processor, vnc_server>>
    /\ UNCHANGED notRun

\* frame.rs:104-113, 172-208: receive_frame yields the packet's frame and process_frame
\* handles it: past the throttle, with a request waiting, it writes the frame and sets
\* the timestamp; the frames of the stream are 0.05 s apart
DumperFrame(request) ==
    /\ frame_dumper.pc = "receive"
    /\ frame_dumper.receive_frame = "none"
    /\ LET pt == frame_dumper.frame_no
           eligible == PassesThrottle(pt, frame_dumper.previous_presentation_time) IN
         frame_dumper' = [frame_dumper EXCEPT
              !.frame_no = @ + 1,
              !.receive_frame = "frame",
              !.previous_presentation_time = IF eligible /\ request THEN pt ELSE @,
              !.process_frame = IF ~eligible THEN "throttled"
                                ELSE IF request THEN "acted" ELSE "no request"]
    /\ UNCHANGED <<terminate_flag, processor, vnc_server>>
    /\ UNCHANGED notRun

\* frame.rs:104-106: receive_frame yields no frame: process_receive_frame_result gives
\* Ok(false) or Err, neither matches the Ok(true) of the while let, which ends, and
\* the loop over the packets goes on
DumperNoFrame(result) ==
    /\ frame_dumper.pc = "receive"
    /\ process_receive_frame_result(result) # "Ok(true)"
    /\ frame_dumper' = [frame_dumper EXCEPT !.pc = "check", !.receive_frame = result]
    /\ UNCHANGED <<terminate_flag, processor, vnc_server>>
    /\ UNCHANGED notRun

\* frame.rs:116-120: after each packet, a set flag clears infinite_loop and leaves
\* the loop over the packets
DumperCheck ==
    /\ frame_dumper.pc = "check"
    /\ frame_dumper' =
         IF terminate_flag["stream_dumper"]
         THEN [frame_dumper EXCEPT !.pc = "end of pass", !.infinite_loop = FALSE]
         ELSE [frame_dumper EXCEPT !.pc = "packets"]
    /\ UNCHANGED <<terminate_flag, processor, vnc_server>>
    /\ UNCHANGED notRun

\* frame.rs:100: input.packets() has no packet left
DumperPacketsEnd ==
    /\ frame_dumper.pc = "packets"
    /\ frame_dumper.packets = 0
    /\ frame_dumper' = [frame_dumper EXCEPT !.pc = "end of pass"]
    /\ UNCHANGED <<terminate_flag, processor, vnc_server>>
    /\ UNCHANGED notRun

\* variant: the seek leaves previous_presentation_time as it is
DumperEndOfPassKeepsTime(n) ==
    /\ frame_dumper.pc = "end of pass"
    /\ frame_dumper' =
         IF frame_dumper.infinite_loop
         THEN [frame_dumper EXCEPT !.pc = "packets", !.packets = n, !.frame_no = 0,
                                   !.rewound = TRUE,
                                   !.receive_frame = "none", !.process_frame = "none"]
         ELSE [frame_dumper EXCEPT !.pc = "stopped", !.result = "Ok"]
    /\ UNCHANGED <<terminate_flag, processor, vnc_server>>
    /\ UNCHANGED notRun

\* frame.rs:123-128: with infinite_loop the input is sought back to its start and
\* previous_presentation_time set to 0.0, the next pass yielding n packets; without,
\* the loop is left and run returns Ok
DumperEndOfPass(n) ==
    /\ frame_dumper.pc = "end of pass"
    /\ frame_dumper' =
         IF frame_dumper.infinite_loop
         THEN [frame_dumper EXCEPT !.pc = "packets", !.packets = n, !.frame_no = 0,
                                   !.previous_presentation_time = 0, !.rewound = TRUE,
                                   !.receive_frame = "none", !.process_frame = "none"]
         ELSE [frame_dumper EXCEPT !.pc = "stopped", !.result = "Ok"]
    /\ UNCHANGED <<terminate_flag, processor, vnc_server>>
    /\ UNCHANGED notRun

\* frame.rs:124: input.seek(0, 0..0)? returns its error from run
DumperSeekFails ==
    /\ frame_dumper.pc = "end of pass"
    /\ frame_dumper.infinite_loop
    /\ frame_dumper' = [frame_dumper EXCEPT !.pc = "stopped", !.result = "Err"]
    /\ UNCHANGED <<terminate_flag, processor, vnc_server>>
    /\ UNCHANGED notRun

\* processor.rs:65: while !terminate_flag.load(..)
ProcessorWhile ==
    /\ processor.pc = "while"
    /\ processor' =
         IF terminate_flag["processor"]
         THEN [processor EXCEPT !.pc = "exited", !.result = "Ok"]
         ELSE [processor EXCEPT !.pc = "process_frame"]
    /\ UNCHANGED <<terminate_flag, frame_dumper, vnc_server>>
    /\ UNCHANGED notRun

\* processor.rs:66-75 with a read() that returns Ok: the frame is processed, the canvas
\* copied to the display segment under the lock, and frame_counter incremented
ProcessorFrame ==
    /\ processor.pc = "process_frame"
    /\ processor' = [processor EXCEPT !.pc = "while", !.read = "Ok"]
    /\ UNCHANGED <<terminate_flag, frame_dumper, vnc_server>>
    /\ UNCHANGED notRun

\* processor.rs:66, 84, frame.rs:256-259: read() returns the error of its receive
\* (no reply within 2 s) or of its send, process_frame()? and run return it
ProcessorReadFails ==
    /\ processor.pc = "process_frame"
    /\ processor' = [processor EXCEPT !.pc = "exited", !.read = "Err", !.result = "Err"]
    /\ UNCHANGED <<terminate_flag, frame_dumper, vnc_server>>
    /\ UNCHANGED notRun

\* vnc.rs:52: while rfbIsActive(screen_info) != 0, left when the server is shut down
VncWhile ==
    /\ vnc_server.pc = "while"
    /\ vnc_server' =
         IF vnc_server.active
         THEN [vnc_server EXCEPT !.pc = "copy"]
         ELSE [vnc_server EXCEPT !.pc = "exited", !.result = "Ok"]
    /\ UNCHANGED <<terminate_flag, frame_dumper, processor>>
    /\ UNCHANGED notRun

\* vnc.rs:53-73: the display segment is copied under the lock, and rfbProcessEvents
\* returns after deferUpdateTime at the latest
VncCopy ==
    /\ vnc_server.pc = "copy"
    /\ vnc_server' = [vnc_server EXCEPT !.pc = "flag"]
    /\ UNCHANGED <<terminate_flag, frame_dumper, processor>>
    /\ UNCHANGED notRun

\* vnc.rs:75-80: a set flag shuts the server down, rfbIsActive is 0 from then on
VncFlag ==
    /\ vnc_server.pc = "flag"
    /\ vnc_server' = [vnc_server EXCEPT !.pc = "while",
                          !.active = @ /\ ~terminate_flag["vnc_server"]]
    /\ UNCHANGED <<terminate_flag, frame_dumper, processor>>
    /\ UNCHANGED notRun

RunNext ==
    \/ \E p \in Processes : Signal(p)
    \/ DumperPacket
    \/ DumperSendPacketFails
    \/ \E request \in BOOLEAN : DumperFrame(request)
    \/ \E result \in ReceiveFrameErrors : DumperNoFrame(result)
    \/ DumperCheck
    \/ DumperPacketsEnd
    \/ \E n \in 0..MaxPackets : DumperEndOfPass(n)
    \/ DumperSeekFails
    \/ ProcessorWhile
    \/ ProcessorFrame
    \/ ProcessorReadFails
    \/ VncWhile
    \/ VncCopy
    \/ VncFlag

\* every process goes on with its loop: the calls it makes return
RunFairness ==
    /\ WF_vars(DumperPacket)
    /\ WF_vars(\E request \in BOOLEAN : DumperFrame(request))
    /\ WF_vars(\E result \in ReceiveFrameErrors : DumperNoFrame(result))
    /\ WF_vars(DumperCheck)
    /\ WF_vars(DumperPacketsEnd)
    /\ WF_vars(\E n \in 0..MaxPackets : DumperEndOfPass(n))
    /\ WF_vars(ProcessorWhile)
    /\ WF_vars(ProcessorFrame)
    /\ WF_vars(VncWhile)
    /\ WF_vars(VncCopy)
    /\ WF_vars(VncFlag)

----------------------------------------------------------------------------
(* Startup of the recognition process (main.rs)                             *)

\* the configuration file: not there, not a region list in TOML, or a region list
ConfigFiles == {"missing", "malformed", "valid"}

\* the names of the recognition process's IPC resources: the frame segment
\* /tppocr_<stream_id>, the display segment /tppocr_<vnc_id>, and the client's socket
\* /tmp/tppocr_client-<stream_id>.socket
IpcNames == {"frame segment", "display segment", "client socket"}

MainInit ==
    /\ \E config \in ConfigFiles, up \in BOOLEAN, tessdata \in BOOLEAN,
          names \in SUBSET IpcNames :
         environment = [config |-> config, stream_dumper_up |-> up,
                        tessdata |-> tessdata, names |-> names]
    /\ main = [pc |-> "FrameReader::new", result |-> "running", config |-> "none",
               opened |-> {}]

\* the values dropped when main returns: the FrameReader's MessageClient removes its
\* socket's name (message_socket.rs:99-103), the segments stay (unlink_on_drop is false)
MainDrops(names) == names \ {"client socket"}

\* main.rs:68-72, frame.rs:219-236: the frame segment is opened or created, the client
\* socket bound and connected; without a stream dumper the connect fails, and the
\* socket is closed with its name left
MainFrameReader ==
    /\ main.pc = "FrameReader::new"
    /\ environment' = [environment EXCEPT !.names = @ \cup {"frame segment", "client socket"}]
    /\ main' = IF environment.stream_dumper_up
               THEN [main EXCEPT !.pc = "VncClient::new",
                                 !.opened = @ \cup {"frame segment", "client socket"}]
               ELSE [main EXCEPT !.pc = "returned", !.result = "Err",
                                 !.opened = @ \cup {"frame segment", "client socket"}]
    /\ UNCHANGED notMain

\* main.rs:73-77, vnc.rs:166-176: the display segment is opened or created
MainVncClient ==
    /\ main.pc = "VncClient::new"
    /\ environment' = [environment EXCEPT !.names = @ \cup {"display segment"}]
    /\ main' = [main EXCEPT !.pc = "TextRecognizer::new",
                            !.opened = @ \cup {"display segment"}]
    /\ UNCHANGED notMain

\* main.rs:78-81
MainTextRecognizer ==
    /\ main.pc = "TextRecognizer::new"
    /\ IF environment.tessdata
       THEN /\ main' = [main EXCEPT !.pc = "config"]
            /\ UNCHANGED environment
       ELSE /\ main' = [main EXCEPT !.pc = "returned", !.result = "Err"]
            /\ environment' = [environment EXCEPT !.names = MainDrops(@)]
    /\ UNCHANGED notMain

\* main.rs:83-84: read_to_string(config)? and toml::de::from_str(..)?
MainConfig ==
    /\ main.pc = "config"
    /\ IF environment.config = "valid"
       THEN /\ main' = [main EXCEPT !.pc = "run", !.config = "loaded"]
            /\ UNCHANGED environment
       ELSE /\ main' = [main EXCEPT !.pc = "returned", !.result = "Err"]
            /\ environment' = [environment EXCEPT !.names = MainDrops(@)]
    /\ UNCHANGED notMain

\* main.rs:86-89: Processor::new and processor.run()?, which ends with Ok or Err
MainRun(result) ==
    /\ main.pc = "run"
    /\ main' = [main EXCEPT !.pc = "returned", !.result = result]
    /\ environment' = [environment EXCEPT !.names = MainDrops(@)]
    /\ UNCHANGED notMain

MainNext ==
    \/ MainFrameReader
    \/ MainVncClient
    \/ MainTextRecognizer
    \/ MainConfig
    \/ \E result \in {"Ok", "Err"} : MainRun(result)

----------------------------------------------------------------------------
TextRest == TextInit /\ region.x = 0
ChanRest == ChanInit /\ skip_sleep = FALSE
RunRest == RunInit /\ ~frame_dumper.infinite_loop /\ frame_dumper.packets = 0
MainRest ==
    /\ MainInit
    /\ environment = [config |-> "valid", stream_dumper_up |-> TRUE, tessdata |-> TRUE,
                      names |-> {}]

InitText == TextInit /\ ChanRest /\ ShmInit /\ DispInit /\ SockInit /\ RunRest /\ MainRest
NextText == TextNext
SpecText == InitText /\ [][NextText]_vars

InitChan == ChanInit /\ TextRest /\ ShmInit /\ DispInit /\ SockInit /\ RunRest /\ MainRest
NextChan == ChanNext
SpecChan == InitChan /\ [][NextChan]_vars

\* the frame exchange with a consumer that retries and a producer that keeps decoding
SpecChanLive == InitChan /\ [][NextChan]_vars /\ ChanFairness

InitShm == ShmInit /\ TextRest /\ ChanRest /\ DispInit /\ SockInit /\ RunRest /\ MainRest
NextShm == ShmNext
SpecShm == InitShm /\ [][NextShm]_vars

\* each process goes on with its loop; a process waiting in flock gets the lock in the
\* end if the lock keeps being released
DispFairness ==
    /\ SF_vars(WriterLock)
    /\ WF_vars(WriterCopyWord)
    /\ WF_vars(WriterUnlock)
    /\ SF_vars(ReaderLock)
    /\ WF_vars(ReaderCopyWord)
    /\ WF_vars(ReaderUnlock)
    /\ WF_vars(ReaderEvents)

InitDisp == DispInit /\ TextRest /\ ChanRest /\ ShmInit /\ SockInit /\ RunRest /\ MainRest
NextDisp == DispNext
SpecDisp == InitDisp /\ [][NextDisp]_vars

\* the display buffer exchange with processes that keep running
SpecDispLive == InitDisp /\ [][NextDisp]_vars /\ DispFairness

InitSock == SockInit /\ TextRest /\ ChanRest /\ ShmInit /\ DispInit /\ RunRest /\ MainRest
NextSock == SockNext
SpecSock == InitSock /\ [][NextSock]_vars

InitRun == RunInit /\ TextRest /\ ChanRest /\ ShmInit /\ DispInit /\ SockInit /\ MainRest
NextRun == RunNext
SpecRun == InitRun /\ [][NextRun]_vars

\* the three loops with processes that keep running
SpecRunLive == InitRun /\ [][NextRun]_vars /\ RunFairness

InitMain == MainInit /\ TextRest /\ ChanRest /\ ShmInit /\ DispInit /\ SockInit /\ RunRest
NextMain == MainNext
SpecMain == InitMain /\ [][NextMain]_vars

----------------------------------------------------------------------------
(* Properties of the FixedLine stabilizer *)

\* the highest confidence in a non-empty buffer
MaxConfidence(buf) ==
    CHOOSE c \in {buf[i].confidence : i \in DOMAIN buf} :
        \A i \in DOMAIN buf : buf[i].confidence <= c

\* the first entry of a non-empty buffer that has the highest confidence
FirstBest(buf) ==
    buf[CHOOSE i \in DOMAIN buf :
            /\ buf[i].confidence = MaxConfidence(buf)
            /\ \A j \in 1..(i - 1) : buf[j].confidence < MaxConfidence(buf)]

Similar(a, b) == ~BelowSimilarity(similarity(a, b))

PairwiseSimilar(buf) == \A i, j \in DOMAIN buf : Similar(buf[i].text, buf[j].text)

\* the events queued or returned after a step: a poll returns them, any other call queues them
EventsAfter == IF lastCall'.op = "poll" THEN lastCall'.results ELSE output_buffer'

\* an accepted observation similar to every buffered one is appended, nothing is flushed
C6Accumulate ==
    ( lastCall'.op = "process" /\ lastCall'.pushed )
    => /\ input_buffer' # <<>>
       /\ ( \A i \in DOMAIN input_buffer :
                Similar(input_buffer[i].text, Last(input_buffer').text) )
          => /\ Len(input_buffer') = Len(input_buffer) + 1
             /\ SubSeq(input_buffer', 1, Len(input_buffer)) = input_buffer
             /\ output_buffer' = output_buffer

\* a flush of pairwise similar observations adds exactly one event, the first best one
C6Flush ==
    ( /\ input_buffer # <<>> /\ PairwiseSimilar(input_buffer)
      /\ lastCall'.group # <<>> )
    => /\ lastCall'.group = input_buffer
       /\ EventsAfter = Append(output_buffer, TextItem(FirstBest(input_buffer)))
       /\ Last(EventsAfter).confidence = MaxConfidence(input_buffer)

\* C6: N >= 1 consecutive accepted observations with pairwise similar texts are all
\* kept in the pending buffer, and a flush then yields exactly one TextEvent, whose
\* confidence is the maximum of theirs and whose text and timestamp are those of the
\* first observation that attains the maximum.
C6_FlushYieldsFirstBest == [][C6Accumulate /\ C6Flush]_vars

\* a flushed group of two similar observations that tie at the maximum
C6_Witness ==
    /\ Len(lastCall.group) >= 2
    /\ PairwiseSimilar(lastCall.group)
    /\ lastCall.group[1].confidence = lastCall.group[2].confidence
    /\ lastCall.group[1].text # lastCall.group[2].text
    /\ lastCall.group[1].date # lastCall.group[2].date
    /\ lastCall.op = "process"
    /\ output_buffer = <<TextItem(lastCall.group[1])>>

\* B is dissimilar to the first buffered entry: the best is queued, B is left alone
C7Arrive ==
    ( lastCall'.op = "process" /\ lastCall'.pushed /\ input_buffer # <<>> )
    => /\ input_buffer' # <<>>
       /\ ~Similar(input_buffer[1].text, Last(input_buffer').text)
          => /\ output_buffer' = Append(output_buffer, TextItem(FirstBest(input_buffer)))
             /\ Len(input_buffer') = 1
             /\ input_buffer'[1].date = now
             /\ input_buffer'[1].confidence = lastCall'.confidence
             /\ lastCall'.group = input_buffer

\* the poll right after B arrived on an empty queue returns A's event alone, B stays
C7PollAfter ==
    ( /\ lastCall.op = "process" /\ lastCall.group # <<>>
      /\ Len(output_buffer) = 1
      /\ lastCall'.op = "poll" )
    => /\ lastCall'.results = <<TextItem(FirstBest(lastCall.group))>>
       /\ input_buffer' = input_buffer
       /\ output_buffer' = <<>>

\* the next flush of a buffer holding B alone yields B's event
C7NextFlush ==
    ( Len(input_buffer) = 1 /\ lastCall'.group # <<>> )
    => EventsAfter = Append(output_buffer, TextItem(input_buffer[1]))

TextAndConfidence(buf) == [i \in DOMAIN buf |-> <<buf[i].text, buf[i].confidence>>]

\* HELLO(0.7), HELL0(0.9) buffered and BYE(0.8) arrives: HELL0/0.9 is queued;
\* BYE(0.8) is flushed after it: BYE/0.8 follows
C7Scenario ==
    /\ ( /\ TextAndConfidence(input_buffer) = <<<<HELLO, 70>>, <<HELL0, 90>>>>
         /\ output_buffer = <<>>
         /\ lastCall'.op = "process" /\ lastCall'.pushed
         /\ lastCall'.group # <<>> )
       => /\ TextAndConfidence(output_buffer') = <<<<HELL0, 90>>>>
          /\ output_buffer'[1].date = input_buffer[2].date
          /\ TextAndConfidence(input_buffer') = <<<<BYE, 80>>>>
    /\ ( /\ TextAndConfidence(lastCall.group) = <<<<HELLO, 70>>, <<HELL0, 90>>>>
         /\ TextAndConfidence(output_buffer) = <<<<HELL0, 90>>>>
         /\ TextAndConfidence(input_buffer) = <<<<BYE, 80>>>>
         /\ lastCall'.group # <<>> )
       => TextAndConfidence(EventsAfter) = <<<<HELL0, 90>>, <<BYE, 80>>>>

\* C7: when an accepted observation B arrives whose similarity to the buffer's first
\* entry A is below 0.8, the buffer's best candidate is queued as a TextEvent and the
\* pending buffer then holds B alone; a poll right after returns exactly that one
\* event, and the next flush returns B's.  Fed HELLO(0.7), HELL0(0.9), BYE(0.8), the
\* output is HELL0/0.9 followed by BYE/0.8.
C7_DissimilarFlushesFirst == [][C7Arrive /\ C7PollAfter /\ C7NextFlush /\ C7Scenario]_vars

\* the scenario's whole output, returned by a poll after BYE went idle
C7_Witness ==
    /\ lastCall.op = "poll"
    /\ TextAndConfidence(lastCall.group) = <<<<BYE, 80>>>>
    /\ TextAndConfidence(lastCall.results) = <<<<HELL0, 90>>, <<BYE, 80>>>>
    /\ region = [x |-> 0, y |-> 0, width |-> 200, height |-> 40]
    /\ input_buffer = <<>>

\* C8: poll_result(now) flushes a non-empty pending buffer exactly when now minus the
\* timestamp of the buffer's most recent entry is strictly greater than 5 seconds;
\* otherwise the buffer stays as it is and nothing new is returned.
C8_IdleFlushAfterFive ==
    [][ ( lastCall'.op = "poll" /\ input_buffer # <<>> )
        => IF now - input_buffer[Len(input_buffer)].date > 5
           THEN /\ input_buffer' = <<>>
                /\ lastCall'.group = input_buffer
                /\ Len(lastCall'.results) = Len(output_buffer) + 1
           ELSE /\ input_buffer' = input_buffer
                /\ lastCall'.group = <<>>
                /\ lastCall'.results = output_buffer ]_vars

\* a single observation, polled 6 seconds later, was flushed
C8_Witness ==
    /\ lastCall.op = "poll"
    /\ Len(lastCall.group) = 1
    /\ now = lastCall.group[1].date + 6
    /\ lastCall.results = <<TextItem(lastCall.group[1])>>

\* C9 (as claimed): an observation whose first block's top-left corner is more than
\* 20% of the region's width or height away from the region's top-left corner is
\* never added to the pending buffer.
C9_FarBlockNeverBuffered ==
    [][ ( lastCall'.op = "process" /\ lastCall'.far )
        => ( ~lastCall'.pushed /\ UNCHANGED <<input_buffer, output_buffer>> ) ]_vars

EventsHeld == {output_buffer[i] : i \in DOMAIN output_buffer}
                  \cup {lastCall.results[i] : i \in DOMAIN lastCall.results}

\* C10: an observation whose first block has confidence below 0.6, or that comes
\* with no block, leaves the pending buffer and the output queue unchanged; every
\* TextEvent queued or returned has confidence >= 0.6.
C10_LowConfidenceIgnored ==
    /\ [][ ( lastCall'.op = "process" /\ lastCall'.confidence < 60 )
           => ( ~lastCall'.pushed /\ UNCHANGED <<input_buffer, output_buffer>> ) ]_vars
    /\ [](\A e \in EventsHeld : e.confidence >= 60)

\* a reading of confidence 0.59 was offered while a line was pending and an event queued
C10_Witness ==
    /\ lastCall.op = "process"
    /\ lastCall.confidence = 59
    /\ input_buffer # <<>>
    /\ output_buffer # <<>>

\* s is the beginning of t
IsPrefix(s, t) == Len(s) <= Len(t) /\ SubSeq(t, 1, Len(s)) = s

\* a poll returns the queued events oldest first, then the event of its own idle
\* flush if it made one, and leaves the queue empty
C11Drain ==
    lastCall'.op = "poll" =>
        /\ output_buffer' = <<>>
        /\ IsPrefix(output_buffer, lastCall'.results)
        /\ Len(lastCall'.results) <= Len(output_buffer) + 1
        /\ IF Len(lastCall'.results) = Len(output_buffer) + 1
           THEN /\ input_buffer # <<>>
                /\ input_buffer' = <<>>
                /\ \E i \in DOMAIN input_buffer :
                      Last(lastCall'.results) = TextItem(input_buffer[i])
           ELSE input_buffer' = input_buffer

\* events are queued at the back: process keeps what is queued and adds behind it
C11Queue ==
    lastCall'.op = "process" => IsPrefix(output_buffer, output_buffer')

\* a poll that directly follows a poll returns nothing
C11Second ==
    (lastCall.op = "poll" /\ lastCall'.op = "poll") => lastCall'.results = <<>>

\* C11: poll_result returns every TextEvent queued since the previous poll, first in
\* first out, and leaves the output queue empty; a second poll with no flush in
\* between returns no events, so no event is returned by two polls.
C11_PollDrainsFifo ==
    /\ [][C11Drain /\ C11Queue /\ C11Second]_vars
    /\ [](lastCall.op = "poll" => output_buffer = <<>>)

\* a poll returned two different events: the one queued earlier first, then the one
\* of its own idle flush
C11_Witness ==
    /\ lastCall.op = "poll"
    /\ Len(lastCall.results) = 2
    /\ lastCall.group # <<>>
    /\ lastCall.results[1].text # lastCall.results[2].text
    /\ lastCall.results[2] = TextItem(lastCall.group[1])
    /\ output_buffer = <<>>
    /\ input_buffer = <<>>

\* C12 (as claimed): for one caption line that stays on screen, all of whose accepted
\* readings are similar to its first reading, at most one TextEvent is queued, over
\* any interleaving of process calls, rejected readings and polls, including polls
\* more than 5 seconds after the latest accepted reading.
C12_OneEventPerUtterance == utterance.events <= 1

----------------------------------------------------------------------------
(* Properties of the SyncChannel frame exchange *)

\* a reply is only ever sent for a request the poll consumed, and only once
C1Replies ==
    \A r \in 1..MaxReads : replies[r] <= 1 /\ (replies[r] = 1 => r \in consumed)

\* a read() that returned Ok received the one reply sent for a consumed request
C1Success == client_pc = "ok" => (got \in consumed /\ replies[got] = 1)

\* read() returns Ok exactly when a reply is there before the timeout, Err otherwise
C1Return ==
    /\ (client_pc = "receive" /\ client_pc' = "failed") => client_socket = <<>>
    /\ (client_pc = "receive" /\ client_pc' = "ok")
         => /\ client_socket # <<>>
            /\ got' = Head(client_socket).for
            /\ client_socket' = Tail(client_socket)

\* C1: with one server and one client, read() returns success if and only if a reply
\* reached the client before its timeout; every reply was sent by the server exactly
\* once, to the requester, for a request its non-blocking poll had consumed; the
\* server never sends a reply without having consumed a request.
C1_Rendezvous == [](C1Replies /\ C1Success) /\ [][C1Return]_vars

\* read() number 2 succeeded with the reply to its own request
C1_Witness == client_pc = "ok" /\ reads = 2 /\ got = 2 /\ consumed = {1, 2}

\* C2 (as claimed): whenever read() returns success, a producer write into the frame
\* segment completed at or after the moment that read() sent its request.
C2_FreshFrameOnSuccess == client_pc = "ok" => fresh

\* C3: a reply for a request is sent only after the copy of the converted frame into
\* the segment has completed; no reply exists while the write for its request is
\* absent or in progress.
C3_ReplyAfterWrite ==
    /\ [](\A r \in 1..MaxReads : replies[r] >= 1 => r \in written)
    /\ [](\A i \in DOMAIN client_socket :
             /\ client_socket[i].for \in written
             /\ ~(server_pc = "copy" /\ serving = client_socket[i].for))
    /\ [][replies' # replies
            => /\ server_pc = "send" /\ copied = FrameWords
               /\ \A i \in 1..FrameWords : frame_memory[i] = rgb_frame]_vars

\* the reply for the request served last is in flight and the segment holds its frame
C3_Witness ==
    /\ server_pc \in {"sleep", "decode"}
    /\ client_socket = <<[for |-> serving]>>
    /\ serving \in written
    /\ \A i \in 1..FrameWords : frame_memory[i] = rgb_frame

----------------------------------------------------------------------------
(* Properties of the shared memory segment *)

\* C4: for every segment size S > 0 and every offset k < S, a value written through
\* the byte view of one attachment at offset k is the value read at offset k through
\* the view of every attachment opened on the same id with that size, written before
\* or after that attachment was opened, for as long as the name has not been unlinked.
C4_WriteVisibleThroughAnyAttachment ==
    \A S \in Sizes :
        shm_sizes = {S} =>
            \A h \in Handles :
                Current(h) => \A k \in 1..S : data(h)[k] = shm_shadow[k]

\* a second attachment was opened after a store at the last offset, and both
\* attachments read the stored value there
C4_Witness ==
    /\ shm_last = [op |-> "open", result |-> "ok"]
    /\ shm_sizes = {MaxSize}
    /\ shm_shadow[MaxSize] = 2
    /\ \E h1, h2 \in Handles :
          /\ h1 # h2
          /\ Current(h1) /\ Current(h2)
          /\ data(h1)[MaxSize] = 2
          /\ data(h2)[MaxSize] = 2

\* the step is an open or an open_or_create
Opening == shm_last'.op \in {"open", "open_or_create"}

\* C16 (as claimed): the length of a segment is fixed at creation and never resized:
\* whatever the sizes given to later open_or_create and open calls, the object keeps
\* its length and the bytes it holds.
C16_LengthFixedAtCreation ==
    [][(shm_name # 0 /\ shm_name' = shm_name /\ Opening)
         => shm_objects'[shm_name] = shm_objects[shm_name]]_vars

\* open on an absent name fails with NotFound, leaves the name absent and creates no object
C17Open ==
    (shm_name = 0 /\ shm_last'.op = "open")
        => /\ shm_last'.result = "NotFound"
           /\ shm_name' = 0
           /\ shm_objects' = shm_objects
           /\ \A h \in Handles : handles'[h].state # "open" \/ handles'[h] = handles[h]

\* open_or_create on an absent name succeeds: the name designates a new object of
\* exactly the size asked for, all bytes zero, mapped by the new handle
C17Create ==
    (shm_name = 0 /\ shm_last'.op = "open_or_create")
        => /\ shm_last'.result = "ok"
           /\ shm_name' = Len(shm_objects) + 1
           /\ Len(shm_objects') = Len(shm_objects) + 1
           /\ \E h \in Handles :
                 /\ handles[h].state = "none"
                 /\ handles'[h].state = "open"
                 /\ handles'[h].obj = shm_name'
                 /\ shm_objects'[shm_name'].len = handles'[h].data_size
                 /\ shm_objects'[shm_name'].data = [k \in 1..handles'[h].data_size |-> 0]

\* C17: open(id, size) on a name that does not exist fails with a not-found error and
\* creates nothing; open_or_create(id, size) on the same absent name succeeds and
\* creates a segment of exactly size bytes.
C17_OpenNeedsExistingName == [][C17Open /\ C17Create]_vars

\* an open failed on the absent name, and the open_or_create that followed created
\* a segment of the largest size
C17_Witness ==
    /\ shm_last = [op |-> "open_or_create", result |-> "ok"]
    /\ handles[1].state = "failed"
    /\ handles[2].state = "open"
    /\ handles[2].creator
    /\ shm_name # 0
    /\ shm_objects[shm_name].len = MaxSize

\* the step drops handle h
Dropping(h) ==
    /\ shm_last'.op = "drop"
    /\ handles[h].state = "open"
    /\ handles'[h].state = "dropped"

\* the drop of a handle with unlink_on_drop set leaves the name absent; the objects
\* and the other handles, hence what these read, are as before
C18Drop ==
    \A h \in Handles :
        (Dropping(h) /\ handles[h].unlink_on_drop)
            => /\ shm_name' = 0
               /\ shm_objects' = shm_objects
               /\ \A g \in Handles \ {h} : handles'[g] = handles[g]

\* while the name is absent an open fails and leaves it absent
C18Late ==
    (shm_name = 0 /\ shm_last'.op = "open")
        => (shm_last'.result = "NotFound" /\ shm_name' = 0)

\* C18: when set_unlink_on_drop(true) has been called on a handle, destroying that
\* handle removes the segment name from the namespace, after which open(id, size) by
\* a late caller fails; handles already attached keep seeing the same bytes.
C18_UnlinkOnDropRemovesName == [][C18Drop /\ C18Late]_vars

\* the first handle was dropped with unlink_on_drop set, which removed the name; the
\* second handle, attached before, still reads the value stored at the last offset
C18_Witness ==
    /\ shm_last = [op |-> "drop", result |-> "ok"]
    /\ handles[1].state = "dropped"
    /\ shm_unlinks = 1
    /\ shm_name = 0
    /\ handles[2].state = "open"
    /\ handles[2].data_size = MaxSize
    /\ data(2)[MaxSize] = 2

\* the drop of a handle with unlink_on_drop not set changes neither the name nor the objects
C19Drop ==
    \A h \in Handles :
        (Dropping(h) /\ ~handles[h].unlink_on_drop)
            => /\ shm_name' = shm_name
               /\ shm_objects' = shm_objects

\* an open of the existing name with the size the segment has maps the same object
\* and leaves its bytes as they are
C19Reopen ==
    \A h \in Handles :
        ( /\ Opening
          /\ shm_name # 0
          /\ handles[h].state = "none"
          /\ handles'[h].state = "open"
          /\ handles'[h].data_size = shm_objects[shm_name].len )
        => /\ shm_name' = shm_name
           /\ handles'[h].obj = shm_name
           /\ shm_objects' = shm_objects

\* C19: a consumer's exit never destroys a segment: when a handle with unlink_on_drop
\* = false (the default, as in FrameReader and VncClient) is dropped, the name still
\* exists and the contents are unchanged, so a process that re-opens the same id with
\* the same size sees the bytes committed before.
C19_ConsumerExitKeepsSegment == [][C19Drop /\ C19Reopen]_vars

\* the first handle stored a value and was dropped; the second, opened afterwards
\* with the same size, reads that value
C19_Witness ==
    /\ shm_last = [op |-> "open", result |-> "ok"]
    /\ handles[1].state = "dropped"
    /\ shm_unlinks = 0
    /\ shm_sizes = {MaxSize}
    /\ Current(2)
    /\ data(2)[MaxSize] = 2

\* C20 (as claimed): the role that created the segment (FrameDumper, VncServer: an
\* open_or_create with no later set_unlink_on_drop or unlink) unlinks it in the end:
\* once the creator's handle is dropped the name no longer exists.
C20_CreatorUnlinksOnExit ==
    [][\A h \in Handles : (Dropping(h) /\ handles[h].creator) => shm_name' = 0]_vars

----------------------------------------------------------------------------
(* Properties of the display buffer *)

\* the buffer holds one canvas, or the initial content of the segment
OneCanvas(buf) == \E n \in 0..MaxCanvases : buf = Canvas(n)

\* C5: under every interleaving of Processor::run (lock, copy the canvas, unlock) and
\* VncServer::run (lock, copy the segment out, unlock), the frame the reader has
\* copied out is one fully composed canvas or the initial content of the segment,
\* never a mix of two canvases.
C5_ReaderCopiesWholeCanvas ==
    reader_pc \in {"unlock", "events", "lock"} => OneCanvas(frame_buffer)

\* the reader copied canvas 1 out twice in a row, the writer waiting with canvas 2
\* for the lock the reader holds
C5_Witness ==
    /\ reader_pc = "unlock"
    /\ lock_holder = "reader"
    /\ frame_buffer = Canvas(1)
    /\ previous_frame = Canvas(1)
    /\ writer_pc = "lock"
    /\ canvas = Canvas(2)

----------------------------------------------------------------------------
(* The producer's handling of decoded frames *)

\* an eligible frame decoded while no request is queued changes nothing but the
\* decoder's position
C14Skip ==
    ( /\ server_pc = "decode"
      /\ frame_no' = frame_no + 1
      /\ Eligible(presentation_time')
      /\ server_socket = <<>> )
    => /\ server_pc' = "decode"
       /\ UNCHANGED <<frame_memory, previous_presentation_time, rgb_frame, copied,
                      replies, client_socket, server_socket, written>>

\* the frame converted is the frame decoded by the step that took a request, and
\* the segment only ever receives words of that frame
C14Current ==
    /\ rgb_frame' # rgb_frame
         => (server_socket # <<>> /\ rgb_frame' = frame_no' /\ frame_no' = frame_no + 1)
    /\ frame_memory' # frame_memory
         => /\ server_pc = "copy"
            /\ rgb_frame = frame_no
            /\ \E i \in 1..FrameWords : frame_memory' = [frame_memory EXCEPT ![i] = rgb_frame]

\* C14: when a throttle-eligible decoded frame is processed and the non-blocking poll
\* finds no pending request, the frame is skipped entirely: segment contents and the
\* last-acted presentation timestamp are unchanged, no scaling is run, no reply is
\* sent; the skipped frame is never delivered later: only the frame decoded when a
\* request is taken is converted and copied.
C14_FrameSkippedWithoutRequest == [][C14Skip /\ C14Current]_vars

\* frame 1 was delivered; frame 2, eligible, was skipped for want of a request; the
\* request that arrived since finds the segment still holding frame 1
C14_Witness ==
    /\ server_pc = "decode"
    /\ frame_no = 2
    /\ rgb_frame = 1
    /\ previous_presentation_time > 0
    /\ presentation_time - previous_presentation_time > ThrottleUnits
    /\ server_socket # <<>>
    /\ \A i \in 1..FrameWords : frame_memory[i] = 1

\* C15 (as claimed): a frame is written to the segment only if it is the first one
\* written in the pass or its presentation time exceeds that of the frame written
\* last by more than 0.1 s: any two frames written in the same pass differ in
\* presentation time by more than 0.1 s, also with a first frame at time 0.
C15_WrittenFramesApart ==
    [][consumed' # consumed
         => (acted_pts = -1 \/ presentation_time' - acted_pts > ThrottleUnits)]_vars

----------------------------------------------------------------------------
(* Liveness of the frame exchange *)

\* the server replies to every request that was sent, whether or not the read() that
\* sent it has timed out meanwhile
C13Replied == \A r \in 1..MaxReads : (reads >= r) ~> (replies[r] >= 1)

\* after a timeout, with a reply of the server at the client's socket, the next
\* read() returns success
C13Retry ==
    (client_pc = "failed" /\ reads < MaxReads /\ client_socket # <<>>) ~> (client_pc = "ok")

\* C13: a client whose read() timed out can call read() again, and with a producer
\* that keeps decoding frames a later read() eventually returns success once the
\* server has replied; the timeout leaves the client endpoint usable.
C13_RetryEventuallySucceeds == C13Replied /\ C13Retry

\* the second read(), made after the first one timed out, returned success on the
\* reply the server sent for the first request
C13_Witness ==
    /\ client_pc = "ok"
    /\ reads = 2
    /\ got = 1
    /\ replies[1] = 1

----------------------------------------------------------------------------
(* Progress of the display buffer lock *)

\* C21: after one participant has completed lock(); unlock(), a later lock() by the
\* same or by the other attachment eventually succeeds: with writer and reader
\* holding the lock for one copy only, neither Processor::run nor VncServer::run
\* blocks forever in lock(), and a lock held is released.
C21_LockProgress ==
    /\ (writer_pc = "lock") ~> (writer_pc = "copy" /\ lock_holder = "writer")
    /\ (reader_pc = "lock") ~> (reader_pc = "copy" /\ lock_holder = "reader")
    /\ (lock_holder # "none") ~> (lock_holder = "none")

\* the writer has the lock for its second canvas, after its own first critical
\* section and one of the reader, who is back at lock()
C21_Witness ==
    /\ writer_pc = "copy"
    /\ lock_holder = "writer"
    /\ frame_counter = 1
    /\ frame_buffer = Canvas(1)
    /\ reader_pc = "lock"

----------------------------------------------------------------------------
(* The endpoints of a channel id *)

LiveServers == {s \in Servers : servers[s].state = "live"}

\* C22 (as claimed): at most one MessageServer of a channel id is alive at a time: a
\* MessageServer::open(id) made while another server of the id is alive does not
\* yield a second live server.
C22_OneServerPerId == Cardinality(LiveServers) <= 1

ServerDropping(s) ==
    /\ servers[s].state = "live"
    /\ servers'[s].state = "gone"
    /\ sock_last'.op = "MessageServer::drop"

ClientDropping(c) ==
    /\ clients[c].state = "live"
    /\ clients'[c].state = "gone"
    /\ sock_last'.op = "MessageClient::drop"

ServerOpening(s) == servers[s].state = "none" /\ servers'[s].state # "none"

ClientOpening(c) == clients[c].state = "none" /\ clients'[c].state # "none"

\* C23: an endpoint name can be used again after a restart: once a MessageServer or
\* MessageClient is dropped its name is no longer in the file system, and an open
\* succeeds and holds the name whether it found the name absent (clean shutdown) or
\* left behind by an unclean exit (the client's open given a live server to connect to).
C23_NamesReusable ==
    [][/\ \A s \in Servers : ServerDropping(s) => server_path' = 0
       /\ \A c \in Clients : ClientDropping(c) => client_path' = 0
       /\ \A s \in Servers : ServerOpening(s) =>
            /\ servers'[s].state = "live"
            /\ sock_last'.result = "Ok"
            /\ server_path' = s
       /\ \A c \in Clients : (ClientOpening(c) /\ Resolve(server_path, servers) # 0) =>
            /\ clients'[c].state = "live"
            /\ sock_last'.result = "Ok"
            /\ client_path' = c]_vars

\* producer and consumer were both killed and started again: each open found the name
\* the killed process left behind, and succeeded
C23_Witness ==
    /\ servers[1].state = "gone"
    /\ clients[1].state = "gone"
    /\ servers[2].state = "live"
    /\ server_path = 2
    /\ clients[2].state = "live"
    /\ client_path = 2
    /\ sock_last.op = "MessageClient::open"
    /\ sock_last.found = "stale"
    /\ sock_last.result = "Ok"

\* C24 (as claimed): with two or more clients on one channel id every reply is received
\* by the client whose request it answers, and by no other.
C24_ReplyReachesRequester ==
    (sock_last.op = "FrameReader::read" /\ sock_last.answers # 0)
        => sock_last.answers = sock_last.who

\* a step of process_frame in server s whose reply could not be sent
C28ReplyFailed(s) ==
    /\ servers[s].queue # <<>>
    /\ servers'[s].queue = Tail(servers[s].queue)
    /\ sock_last'.op = "process_frame"
    /\ sock_last'.send = "Err"

\* a step of read() in client c whose request could not be sent
C28RequestFailed(c) ==
    /\ clients[c].state = "live"
    /\ clients[c].pc = "idle"
    /\ started_reads' = started_reads + 1
    /\ sock_last'.who = c
    /\ servers[clients[c].peer].state # "live"

\* a step of read() in client c whose receive ended without a datagram
C28ReceiveFailed(c) ==
    /\ clients[c].state = "live"
    /\ clients[c].pc = "receive"
    /\ clients[c].queue = <<>>
    /\ clients'[c].state = "live"
    /\ clients'[c].pc = "idle"

\* C28: the two sides treat a send error differently: a failed send of the reply in
\* the producer is dropped, the producer has set its last-acted timestamp to the
\* frame's and goes on; a failed send of the request, or a failed receive, in
\* FrameReader::read() is the error that read() returns.
C28_SendErrorAsymmetry ==
    [][/\ \A s \in Servers : C28ReplyFailed(s) =>
            /\ sock_last'.result = "Ok"
            /\ servers'[s].state = "live"
            /\ servers'[s].previous_presentation_time
                 = servers[s].previous_presentation_time + ThrottleUnits + 1
       /\ \A c \in Clients : (C28RequestFailed(c) \/ C28ReceiveFailed(c)) =>
            /\ sock_last'.op = "FrameReader::read"
            /\ sock_last'.who = c
            /\ sock_last'.result = "Err"
            /\ clients'[c].pc = "idle"]_vars

\* the consumer was killed with its request queued; the producer wrote the frame, the
\* send of the reply failed, and process_frame returned Ok with the timestamp set
C28_Witness ==
    /\ sock_last.op = "process_frame"
    /\ sock_last.send = "Err"
    /\ sock_last.result = "Ok"
    /\ servers[1].state = "live"
    /\ servers[1].previous_presentation_time = ThrottleUnits + 1
    /\ clients[1].state = "gone"

----------------------------------------------------------------------------
(* Errors and termination in the run loops *)

\* C25 (as claimed): a read() of the consumer that fails, no reply having come within
\* the timeout, does not end Processor::run: the error is dropped and the loop goes on
\* with its next iteration.
C25_ReadTimeoutRetried ==
    [][(processor.pc = "process_frame" /\ processor'.read = "Err")
          => (processor'.pc = "while" /\ processor'.result = "running")]_vars

\* C26 (as claimed): an error of receive_frame other than end of stream and EAGAIN is
\* fatal for the producer: FrameDumper::run returns it.
C26_DecodeFaultFatal ==
    [][(frame_dumper.pc = "receive" /\ frame_dumper'.receive_frame = "fault")
          => (frame_dumper'.pc = "stopped" /\ frame_dumper'.result = "Err")]_vars

\* C29 (as claimed): once its termination flag is set, each of the three loops leaves
\* at its next iteration boundary, the calls of the iteration returning: the
\* producer, in infinite-loop mode and with passes that yield no packets too, the
\* recognition process, and the VNC server.
C29_FlagEndsLoop ==
    /\ terminate_flag["stream_dumper"] ~> (frame_dumper.pc = "stopped")
    /\ terminate_flag["processor"] ~> (processor.pc = "exited")
    /\ terminate_flag["vnc_server"] ~> (vnc_server.pc = "exited")

\* a step of the producer at the end of a pass over the input
C30EndOfPass ==
    /\ frame_dumper.pc = "end of pass"
    /\ frame_dumper' # frame_dumper

\* a step that decodes the first frame of a pass over the input
C30FirstFrame ==
    /\ frame_dumper.pc = "receive"
    /\ frame_dumper.frame_no = 0
    /\ frame_dumper'.frame_no = 1

\* C30: at the end of the stream, with infinite_loop set, the producer seeks back to
\* the start and sets previous_presentation_time to its initial 0.0, so that the
\* first frame of the new pass passes the throttle as the first frame of all did,
\* and is acted upon if a request waits; with infinite_loop clear the loop ends and
\* run returns Ok.
C30_EndOfStream ==
    [][/\ (C30EndOfPass /\ frame_dumper.infinite_loop /\ frame_dumper'.result # "Err") =>
            /\ frame_dumper'.pc = "packets"
            /\ frame_dumper'.frame_no = 0
            /\ frame_dumper'.previous_presentation_time = 0
       /\ (C30EndOfPass /\ ~frame_dumper.infinite_loop) =>
            /\ frame_dumper'.pc = "stopped"
            /\ frame_dumper'.result = "Ok"
       /\ C30FirstFrame => frame_dumper'.process_frame \in {"acted", "no request"}]_vars

\* in a pass after a seek the first frame was written for a waiting request
C30_Witness ==
    /\ frame_dumper.rewound
    /\ frame_dumper.infinite_loop
    /\ frame_dumper.frame_no = 1
    /\ frame_dumper.process_frame = "acted"
    /\ frame_dumper.previous_presentation_time = 0

----------------------------------------------------------------------------
(* Order of the startup *)

\* C27 (as claimed): the recognition process opens or creates no shared memory segment
\* and binds no client socket before its region list is loaded and parsed: with a
\* malformed configuration it ends without any IPC resource opened.
C27_ConfigBeforeIpc == main.opened # {} => main.config = "loaded"

----------------------------------------------------------------------------
(* The frame segment without the lock *)

\* no read() of the single client has timed out so far: the reply that a read()
\* returned with answers that read(), never an earlier one
C31NeverTimedOut ==
    /\ client_pc # "failed"
    /\ client_pc = "ok" => got = reads

\* C31: with a single client that never times out, the producer does not write the
\* frame segment while the consumer reads it: the copy into the segment lies between
\* the taking of a request and the sending of its reply, the consumer's use of the
\* segment between the receipt of a reply and the sending of the next request.
C31_NoWriteWhileReading ==
    (C31NeverTimedOut /\ client_pc = "ok")
        => (server_pc # "copy" /\ copied = FrameWords /\ serving = reads)

\* the consumer uses the segment after its second read(), the producer having written
\* the frame for that read() and gone on
C31_Witness ==
    /\ client_pc = "ok"
    /\ reads = 2
    /\ got = 2
    /\ written = {1, 2}
    /\ server_pc = "decode"
    /\ \A i \in 1..FrameWords : frame_memory[i] = rgb_frame

----------------------------------------------------------------------------
(* unlink() and the drop that follows it *)

\* a call of unlink() on handle h, the name being there
C32Unlinking(h) ==
    /\ shm_last'.op = "unlink"
    /\ handles[h].state = "open"
    /\ handles'[h].state = "dropped"
    /\ shm_name # 0

\* C32 (as claimed): unlink() on a handle, whatever its unlink_on_drop, removes the
\* name exactly once, and the destruction of the handle that follows attempts no
\* second removal: the call ends without a failure.
C32_UnlinkRemovesOnce ==
    [][\A h \in Handles :
         C32Unlinking(h) => /\ shm_unlinks' = shm_unlinks + 1
                            /\ shm_name' = 0
                            /\ shm_last'.result = "ok"]_vars

----------------------------------------------------------------------------
(* The drop of an endpoint whose name another endpoint has taken *)

\* C33 (as claimed): the drop of a MessageServer or MessageClient removes no name that
\* a different live endpoint is bound to, and does not fail for finding its name gone,
\* also when a second endpoint was opened on the id while the first was alive and the
\* two are dropped in either order.
C33_DropSparesOthers ==
    [][/\ \A s \in Servers : ServerDropping(s) =>
            /\ sock_last'.result = "Ok"
            /\ Resolve(server_path, servers) \notin {0, s} => server_path' = server_path
       /\ \A c \in Clients : ClientDropping(c) =>
            /\ sock_last'.result = "Ok"
            /\ Resolve(client_path, clients) \notin {0, c} => client_path' = client_path]_vars

----------------------------------------------------------------------------
(* A client open that fails *)

\* C34 (as claimed): a MessageClient::open(id) that returns an error, no server being
\* bound for the id, leaves no client socket name behind.
C34_FailedOpenLeavesNoName ==
    [][\A c \in Clients :
         (ClientOpening(c) /\ Resolve(server_path, servers) = 0)
            => /\ sock_last'.result = "Err"
               /\ client_path' = 0]_vars

----------------------------------------------------------------------------
(* The pending buffer of the FixedLine stabilizer *)

\* C35: after any sequence of process and poll_result calls every observation in the
\* pending buffer passed the confidence gate (>= 0.6) and is at least 0.8 similar to
\* the buffer's first entry, and the first entry is the observation that started the
\* line being collected: it met an empty buffer or was unlike the line before, and,
\* as long as no event was queued for the line, it is the line's first reading.
C35_PendingBufferInvariant ==
    /\ \A i \in 1..Len(input_buffer) :
         /\ input_buffer[i].confidence >= ConfidenceThreshold
         /\ ~BelowSimilarity(similarity(input_buffer[1].text, input_buffer[i].text))
         /\ i > 1 => input_buffer[i].previous_similarity
                       = similarity(input_buffer[1].text, input_buffer[i].text)
         /\ i > 1 => input_buffer[i].date >= input_buffer[i - 1].date
    /\ input_buffer # <<>> =>
         /\ \/ input_buffer[1].previous_similarity = <<>>
            \/ BelowSimilarity(input_buffer[1].previous_similarity)
         /\ utterance.events = 0 => utterance.first = input_buffer[1].text

\* a line that began with a reading unlike the line before, and has a second,
\* different reading in the buffer
C35_Witness ==
    /\ Len(input_buffer) = 2
    /\ input_buffer[1].previous_similarity # <<>>
    /\ input_buffer[2].text # input_buffer[1].text
    /\ input_buffer[2].date > input_buffer[1].date

----------------------------------------------------------------------------
(* The events of the FixedLine stabilizer over all polls *)

Range(f) == {f[i] : i \in DOMAIN f}

NonDecreasingDates(items) ==
    \A i, j \in DOMAIN items : i <= j => items[i].date <= items[j].date

\* an accepted observation enters the buffer with the call's date and confidence;
\* every other buffered entry was buffered before
C36Accepted ==
    \A item \in Range(input_buffer') \ Range(input_buffer) :
        /\ lastCall'.op = "process" /\ lastCall'.pushed
        /\ item = Last(input_buffer')
        /\ item.date = now
        /\ item.confidence = lastCall'.confidence

\* an event that is queued or returned was queued before or is the copy of a
\* buffered observation
C36Copied ==
    \A event \in Range(EventsAfter) \ Range(output_buffer) :
        \E item \in Range(input_buffer) : event = TextItem(item)

\* what is returned is in order, and no older than anything still to be returned:
\* the queued events, the buffered observations, and observations still to come
C36Ordered ==
    /\ NonDecreasingDates(EventsAfter \o [i \in DOMAIN input_buffer' |->
                                             TextItem(input_buffer'[i])])
    /\ \A item \in Range(EventsAfter) \cup Range(input_buffer') : item.date <= now'
    /\ now' >= now

\* C36: fed observations with non-decreasing timestamps, the stabilizer returns
\* events whose timestamps never decrease over all polls, and each returned event's
\* timestamp, text and confidence are those of one accepted observation.
C36_EventsInOrderFromObservations == [][C36Accepted /\ C36Copied /\ C36Ordered]_vars

\* a poll has returned one event, dated after the first call, while a later
\* observation of another text waits in the buffer for the next event
C36_Witness ==
    /\ lastCall.op = "poll"
    /\ Len(lastCall.results) = 1
    /\ lastCall.results[1].date > 0
    /\ lastCall.results[1].confidence = 90
    /\ Len(input_buffer) = 1
    /\ input_buffer[1].date > lastCall.results[1].date
    /\ input_buffer[1].text # lastCall.results[1].text

============================================================================
